---- MODULE Spec2Model ----
(***************************************************************************)
(* The analysis scripts of explore_cancer_variants as a state machine.     *)
(*                                                                         *)
(* Each script is a linear program over one loaded table `variants`.  The  *)
(* state is the script that runs, its position (pc, one value per section  *)
(* of the script) and the script's global namespace g, a mapping from the  *)
(* names the script assigns to the tables they hold; warnings is the set  *)
(* of RuntimeWarnings numpy has raised (a scalar division by zero); header *)
(* is the set of columns of the input file.                                *)
(*                                                                         *)
(* Values.  A string cell is the sequence of its symbols, so that          *)
(* str.split and str.strip are computed on characters.  A missing cell is  *)
(* NaN.  A float is the exact fraction [n, d]; the float NaN is 0/0, which *)
(* is what a division of zero by zero produces.  A table is a sequence of  *)
(* rows (records); a keyed table (the result of groupby / pivot) is a      *)
(* function on its keys.                                                   *)
(***************************************************************************)
EXTENDS Integers, Sequences, FiniteSets, TLC

VARIABLES script, pc, g, warnings, header

vars == <<script, pc, g, warnings, header>>

(***************************************************************************)
(* Bounds of the model.                                                    *)
(***************************************************************************)
\* largest number of rows of a loaded table
MaxRows == 3
\* the N of the selections of categories, head(n_domains) and head(20) on
\* domains, scaled from 20 to the size of the model's tables
n_domains == 2
\* the N of the selections of genes, head(n_genes), head(20) and nlargest(5)
\* on genes, scaled to the size of the model's tables so that a selection
\* does leave genes out
n_genes == 1
\* the N of domain_enrichment.head(15), scaled so that the selection does
\* leave domains out
n_enriched == 1

(***************************************************************************)
(* Cell values.                                                            *)
(***************************************************************************)
NaN == <<"NaN">>

\* a label (a class, a gene symbol, a column name) is a one-symbol string
Oncogenic == <<"Oncogenic">>
LikelyNeutral == <<"Likely Neutral">>
ClassLabels == {Oncogenic, LikelyNeutral, <<"Unknown">>}

GeneSymbols == {<<"A">>, <<"B">>, NaN}

\* DOMAIN_NAME cells: missing, one domain, and the two-domain cell
\* "Kinase; SH2" (a domain name is one symbol)
DomainCells ==
  {NaN, <<"Kinase">>, <<"SH2">>, <<"Kinase", ";", " ", "SH2">>}

\* FEATURE_TYPE cells: missing, one feature type, two feature types of which
\* one is not among the script's filtered_sites, and a repeated feature type
FeatureCells ==
  {NaN, <<"Binding site">>, <<"Region", ";", " ", "Active site">>,
   <<"Region", ";", "Region">>}

\* Hotspot_Type cells: missing or a hotspot type
HotspotCells == {NaN, <<"single residue">>}

\* boolean cells
True == <<"True">>
False == <<"False">>

(***************************************************************************)
(* Floats as exact fractions.                                              *)
(***************************************************************************)
Flt(n, d) == [n |-> n, d |-> d]

FloatNaN == Flt(0, 0)

IsFinite(x) == x.d # 0

\* numpy / pandas true division: 0/0 is nan, k/0 is inf, nothing is raised
TrueDiv(a, b) == Flt(a.n * b.d, a.d * b.n)

FAdd(a, b) == Flt(a.n * b.d + b.n * a.d, a.d * b.d)

\* comparisons of finite, non-negative floats
FEq(a, b) == a.n * b.d = b.n * a.d
FLe(a, b) == a.n * b.d <= b.n * a.d
FLt(a, b) == a.n * b.d < b.n * a.d

\* Series.fillna(0) on one cell
fillna0(x) == IF x = FloatNaN THEN Flt(0, 1) ELSE x

(***************************************************************************)
(* Generic helpers.                                                        *)
(***************************************************************************)
RECURSIVE SumOver(_, _)
SumOver(S, f) ==
  IF S = {} THEN 0
  ELSE LET x == CHOOSE y \in S : TRUE IN f[x] + SumOver(S \ {x}, f)

RECURSIVE FSumOver(_, _)
FSumOver(S, f) ==
  IF S = {} THEN Flt(0, 1)
  ELSE LET x == CHOOSE y \in S : TRUE IN FAdd(f[x], FSumOver(S \ {x}, f))

Range(s) == {s[i] : i \in 1..Len(s)}

Min(a, b) == IF a <= b THEN a ELSE b

RECURSIVE SetToSeq(_)
SetToSeq(S) ==
  IF S = {} THEN <<>>
  ELSE LET x == CHOOSE y \in S : TRUE IN <<x>> \o SetToSeq(S \ {x})

\* The tables of at most MaxRows rows drawn from the row set R, one table per
\* multiset of rows (its rows in the order of one fixed enumeration of R).
\* The scripts read a table only through filters, groupby and explode, whose
\* results do not depend on the order of the input rows.
TableIndices(N) ==
  UNION {{f \in [1..n -> 1..N] : \A i \in 1..(n - 1) : f[i] <= f[i + 1]} :
         n \in 0..MaxRows}

TableAt(rs, ix) == [i \in DOMAIN ix |-> rs[ix[i]]]

Tables(R) ==
  LET rs == SetToSeq(R)
  IN {TableAt(rs, ix) : ix \in TableIndices(Len(rs))}

\* pd.read_csv: the script's table is any one of Tables(R)
read_csv(R) ==
  \E rs \in {SetToSeq(R)} :
    \E ix \in TableIndices(Len(rs)) : g' = [variants |-> TableAt(rs, ix)]

(***************************************************************************)
(* pandas primitives.                                                      *)
(***************************************************************************)
isna(v) == v = NaN

\* DataFrame.dropna(subset=[col])
dropna(df, col) == SelectSeq(df, LAMBDA r : ~isna(r[col]))

\* df[df[col].isin(values)]
isin(df, col, values) == SelectSeq(df, LAMBDA r : r[col] \in values)

\* str.split on every delimiter, ";", "," and "|"
RECURSIVE str_split_any(_)
str_split_any(s) ==
  IF \A i \in 1..Len(s) : s[i] \notin {";", ",", "|"} THEN <<s>>
  ELSE LET i == CHOOSE j \in 1..Len(s) :
                  /\ s[j] \in {";", ",", "|"}
                  /\ \A k \in 1..(j - 1) : s[k] \notin {";", ",", "|"}
       IN <<SubSeq(s, 1, i - 1)>> \o str_split_any(SubSeq(s, i + 1, Len(s)))

\* str.split(";") of one string: the pieces between the delimiters
RECURSIVE str_split(_)
str_split(s) ==
  IF \A i \in 1..Len(s) : s[i] # ";" THEN <<s>>
  ELSE LET i == CHOOSE j \in 1..Len(s) :
                  s[j] = ";" /\ \A k \in 1..(j - 1) : s[k] # ";"
       IN <<SubSeq(s, 1, i - 1)>> \o str_split(SubSeq(s, i + 1, Len(s)))

\* str.strip() of one string: leading and trailing blanks removed
RECURSIVE str_strip(_)
str_strip(s) ==
  IF s = <<>> THEN s
  ELSE IF Head(s) = " " THEN str_strip(Tail(s))
  ELSE IF s[Len(s)] = " " THEN str_strip(SubSeq(s, 1, Len(s) - 1))
  ELSE s

\* explode that repeats the other cells for the first element only and leaves
\* them missing in the rows of the further elements
RECURSIVE explode_blank(_, _)
explode_blank(df, col) ==
  IF df = <<>> THEN <<>>
  ELSE LET r == Head(df)
           l == r[col]
           rows == IF l = <<>> THEN <<[r EXCEPT ![col] = NaN]>>
                   ELSE [i \in 1..Len(l) |->
                           [c \in DOMAIN r |->
                              IF c = col THEN l[i]
                              ELSE IF i = 1 THEN r[c] ELSE NaN]]
       IN rows \o explode_blank(Tail(df), col)

\* DataFrame.explode(col) where the cell of col is a list: one row per
\* element, the other cells repeated; an empty list gives one NaN row
RECURSIVE explode(_, _)
explode(df, col) ==
  IF df = <<>> THEN <<>>
  ELSE LET r == Head(df)
           l == r[col]
           rows == IF l = <<>> THEN <<[r EXCEPT ![col] = NaN]>>
                   ELSE [i \in 1..Len(l) |-> [r EXCEPT ![col] = l[i]]]
       IN rows \o explode(Tail(df), col)

\* the expanded column left as explode gives it, blanks included
assign_nostrip(df, col) == df

\* .assign(col = df[col].str.split(";"))
assign_split(df, col) ==
  [i \in 1..Len(df) |-> [df[i] EXCEPT ![col] = str_split(df[i][col])]]

\* df[col] = df[col].str.strip()
assign_strip(df, col) ==
  [i \in 1..Len(df) |-> [df[i] EXCEPT ![col] = str_strip(df[i][col])]]

\* the key of a row under groupby(cols); cols is a sequence of column names
KeyOf(r, cols) == [i \in 1..Len(cols) |-> r[cols[i]]]

\* groupby(cols) counting the distinct rows of a key instead of its rows
groupby_distinct(df, cols) ==
  LET ok(r) == \A i \in 1..Len(cols) : ~isna(r[cols[i]])
      keys == {KeyOf(df[i], cols) : i \in {j \in 1..Len(df) : ok(df[j])}}
  IN [k \in keys |->
        Cardinality({df[i] : i \in {j \in 1..Len(df) : KeyOf(df[j], cols) = k}})]

\* groupby(cols).size(): a count per key; rows with a missing key cell are
\* dropped (dropna=True is the default)
groupby_size(df, cols) ==
  LET ok(r) == \A i \in 1..Len(cols) : ~isna(r[cols[i]])
      keys == {KeyOf(df[i], cols) : i \in {j \in 1..Len(df) : ok(df[j])}}
  IN [k \in keys |->
        Cardinality({i \in 1..Len(df) : KeyOf(df[i], cols) = k})]

\* Series.value_counts(): a count per value, missing values dropped
value_counts(df, col) ==
  LET vals == {df[i][col] : i \in 1..Len(df)} \ {NaN}
  IN [v \in vals |-> Cardinality({i \in 1..Len(df) : df[i][col] = v})]

\* level i of the keys of a table, as a column: key |-> its i-th part
level(keys, i) == [k \in keys |-> k[i]]

\* pivot(index, columns, values) of a long table: ix[k] and cx[k] are the
\* index and column value of the row of key k, val[k] its value.  The result
\* is dense over the index and column values that occur, NaN where a pair
\* has no row.
pivot(ix, cx, val) ==
  LET index == {ix[k] : k \in DOMAIN val}
      columns == {cx[k] : k \in DOMAIN val}
      entry(r, c) == {k \in DOMAIN val : ix[k] = r /\ cx[k] = c}
  IN [index |-> index,
      columns |-> columns,
      cell |-> [r \in index |-> [c \in columns |->
                  IF entry(r, c) = {} THEN FloatNaN
                  ELSE val[CHOOSE k \in entry(r, c) : TRUE]]]]

\* df[name] = f, a new column of a dense table
with_column(p, name, f) ==
  [p EXCEPT !.columns = @ \cup {name},
            !.cell = [r \in p.index |-> (name :> f[r]) @@ p.cell[r]]]

\* a selection that keeps every row of a dense table
rows_all(p, i, values) == p

\* df[df[key part].isin(values)] of a dense table: the rows whose part i of
\* the key is among the values
rows_where(p, i, values) ==
  LET index == {r \in p.index : r[i] \in values}
  IN [p EXCEPT !.index = index, !.cell = [r \in index |-> p.cell[r]]]

\* groupby(part i of the key)[col].sum() of a dense table
groupby_sum(p, i, col) ==
  LET keys == {r[i] : r \in p.index}
  IN [k \in keys |->
        FSumOver({r \in p.index : r[i] = k},
                 [r \in p.index |-> p.cell[r][col]])]

\* DataFrame.fillna(0) of a dense table
fillna(p) ==
  [p EXCEPT !.cell = [r \in p.index |-> [c \in p.columns |->
                         fillna0(p.cell[r][c])]]]

\* the orders sort_values(by, ascending=False) may give the keys: the metric
\* never increases along the order; the default sort kind is quicksort,
\* which fixes no order among keys of equal metric
SortedDesc(keys, metric) ==
  LET n == Cardinality(keys)
  IN {o \in [1..n -> keys] :
        /\ \A i, j \in 1..n : i # j => o[i] # o[j]
        /\ \A i \in 1..(n - 1) : FLe(metric[o[i + 1]], metric[o[i]])}

\* the last N rows instead of the first
last_rows(o, N) == SubSeq(o, Len(o) - Min(N, Len(o)) + 1, Len(o))

\* .head(N)
head(o, N) == SubSeq(o, 1, Min(N, Len(o)))

\* a name of the script is (re)bound: new values shadow the old ones
bind(new) == new @@ g

\* the rows of R as a file with the columns cols holds them
Project(R, cols) == {[c \in cols |-> r[c]] : r \in R}

\* the position of a script that runs on to its end
KeyError_swallowed == "done"

\* the position of a script that an uncaught KeyError has ended; a pandas
\* lookup of a column (or pivot column) that does not exist raises it
KeyError == "KeyError"

one == Flt(1, 1)

\* a Python-level division of a numpy integer by an int: the value, and the
\* RuntimeWarning numpy raises when the divisor is 0
scalar_div(a, b) == TrueDiv(Flt(a, 1), Flt(b, 1))
div_warning(site, b) == IF b = 0 THEN {site} ELSE {}

(***************************************************************************)
(* variants_in_domain.py                                                   *)
(***************************************************************************)
DomainRows ==
  [ONCOGENIC : ClassLabels, Hugo_Symbol : GeneSymbols, DOMAIN_NAME : DomainCells]

\* pd.read_csv: any table of the input file's shape
D_Load ==
  /\ script = "variants_in_domain" /\ pc = "load"
  /\ read_csv(Project(DomainRows, header))
  /\ pc' = "count_in_out"
  /\ UNCHANGED <<script, warnings, header>>

\* df[df[col] == value]
\* a selection that keeps every row
all_rows(df, col, value) == df

where_eq(df, col, value) == SelectSeq(df, LAMBDA r : r[col] = value)

count_in_out(df) ==
  LET inside == Cardinality({i \in 1..Len(df) : ~isna(df[i]["DOMAIN_NAME"])})
      outside == Cardinality({i \in 1..Len(df) : isna(df[i]["DOMAIN_NAME"])})
      total == Len(df)
  IN [inside |-> inside, outside |-> outside, total |-> total,
      fraction_inside |-> scalar_div(inside, total)]

D_CountInOut ==
  /\ script = "variants_in_domain" /\ pc = "count_in_out"
  /\ "DOMAIN_NAME" \in header
  /\ LET oncogenic == where_eq(g.variants, "ONCOGENIC", Oncogenic)
         neutral == where_eq(g.variants, "ONCOGENIC", LikelyNeutral)
     IN /\ g' = bind([oncogenic |-> oncogenic, neutral |-> neutral,
                      printed_in_out |->
                        (Oncogenic :> count_in_out(oncogenic)) @@
                        (LikelyNeutral :> count_in_out(neutral))])
        /\ warnings' = warnings
             \cup div_warning("count_in_out(oncogenic)", Len(oncogenic))
             \cup div_warning("count_in_out(neutral)", Len(neutral))
  /\ pc' = "explode"
  /\ UNCHANGED <<script, header>>

\* lines 67-82 on a file without the column DOMAIN_NAME: the class filters
\* run, and df["DOMAIN_NAME"] on line 71 raises KeyError in the first call
\* of count_in_out
D_CountInOutKeyError ==
  /\ script = "variants_in_domain" /\ pc = "count_in_out"
  /\ "DOMAIN_NAME" \notin header
  /\ g' = bind([oncogenic |-> where_eq(g.variants, "ONCOGENIC", Oncogenic),
                neutral |-> where_eq(g.variants, "ONCOGENIC", LikelyNeutral)])
  /\ pc' = KeyError
  /\ UNCHANGED <<script, warnings, header>>

\* expand without its dropna: a missing cell passes through split and
\* explode as one row
expand_keepna(df, col) ==
  assign_strip(explode(assign_split(df, col), col), col)

\* dropna / str.split / explode / str.strip on one multi-valued column
expand(df, col) ==
  assign_strip(explode(assign_split(dropna(df, col), col), col), col)

D_Explode ==
  /\ script = "variants_in_domain" /\ pc = "explode"
  /\ g' = bind([variants_domains |-> expand(g.variants, "DOMAIN_NAME")])
  /\ pc' = "domain_enrichment"
  /\ UNCHANGED <<script, warnings, header>>

\* the count table of a long (key -> count) table as a dense float table
pivot_counts(t, ix, cx) == pivot(ix, cx, [k \in DOMAIN t |-> Flt(t[k], 1)])

\* the ratio with the pseudocount left out of the denominator
unsmoothed_ratio(p, a, b) ==
  [r \in p.index |-> TrueDiv(FAdd(p.cell[r][a], one), p.cell[r][b])]

\* (p[a] + 1) / (p[b] + 1), row by row
smoothed_ratio(p, a, b) ==
  [r \in p.index |-> TrueDiv(FAdd(p.cell[r][a], one), FAdd(p.cell[r][b], one))]

\* p[a] + p[b], row by row
column_sum(p, a, b) == [r \in p.index |-> FAdd(p.cell[r][a], p.cell[r][b])]

column(p, c) == [r \in p.index |-> p.cell[r][c]]

BothClasses == {Oncogenic, LikelyNeutral}

domain_tables(vd0) ==
  LET vd == isin(vd0, "ONCOGENIC", BothClasses)
      dcc == groupby_size(vd, <<"DOMAIN_NAME", "ONCOGENIC">>)
      dp == fillna(pivot_counts(dcc, level(DOMAIN dcc, 1), level(DOMAIN dcc, 2)))
  IN [variants_domains |-> vd, domain_class_counts |-> dcc, domain_pivot |-> dp]

\* lines 122-145 when both class columns exist in the pivot
D_DomainEnrichment ==
  /\ script = "variants_in_domain" /\ pc = "domain_enrichment"
  /\ LET t == domain_tables(g.variants_domains)
         dp == t.domain_pivot
     IN /\ BothClasses \subseteq dp.columns
        /\ LET dpr == with_column(dp, <<"Onco_Neutral_Ratio">>,
                                  smoothed_ratio(dp, Oncogenic, LikelyNeutral))
           IN \E o \in SortedDesc(dpr.index, column(dpr, <<"Onco_Neutral_Ratio">>)) :
                g' = bind([t EXCEPT !.domain_pivot = dpr] @@
                          [domain_enrichment |-> [t |-> dpr, order |-> o]])
  /\ pc' = "top_domains_plot"
  /\ UNCHANGED <<script, warnings, header>>

\* lines 122-143 when a class has no row: domain_pivot["Oncogenic"] or
\* domain_pivot["Likely Neutral"] raises KeyError and the script ends
D_DomainEnrichmentKeyError ==
  /\ script = "variants_in_domain" /\ pc = "domain_enrichment"
  /\ LET t == domain_tables(g.variants_domains)
     IN /\ ~(BothClasses \subseteq t.domain_pivot.columns)
        /\ g' = bind(t)
  /\ pc' = KeyError
  /\ UNCHANGED <<script, warnings, header>>

\* a sort that puts the table itself in the sorted order
sorted_in_place(order, sorted) == sorted

\* line 162: sort_values returns a new table, the table it is called on keeps
\* the order of its rows
order_after_sort_values(order, sorted) == order

\* lines 159-162
D_TopDomainsPlot ==
  /\ script = "variants_in_domain" /\ pc = "top_domains_plot"
  /\ LET de == g.domain_enrichment
         det == with_column(de.t, <<"Total">>,
                            column_sum(de.t, Oncogenic, LikelyNeutral))
     IN \E o \in SortedDesc(det.index, column(det, <<"Total">>)) :
          g' = bind([domain_enrichment |->
                       [t |-> det,
                        order |-> order_after_sort_values(de.order, o)],
                     high_count_domains |-> head(o, n_domains)])
  /\ pc' = "enrichment_plot"
  /\ UNCHANGED <<script, warnings, header>>

\* lines 199-206: the rows the enrichment plot shows
D_EnrichmentPlot ==
  /\ script = "variants_in_domain" /\ pc = "enrichment_plot"
  /\ g' = bind([domain_enrichment_head |->
                  head(g.domain_enrichment.order, n_enriched)])
  /\ pc' = "combined_heatmap"
  /\ UNCHANGED <<script, warnings, header>>

\* a column of counts as floats
as_float(t) == [k \in DOMAIN t |-> Flt(t[k], 1)]

\* the keys of a long table in one of the orders sort_values may give them
sorted_keys(metric) == SortedDesc(DOMAIN metric, metric)

gene_domain_tables(vd) ==
  LET gdcc == groupby_size(vd, <<"Hugo_Symbol", "DOMAIN_NAME", "ONCOGENIC">>)
      \* pivot_table(index=[gene, domain], columns=class, fill_value=0)
      gdm == fillna(pivot_counts(gdcc,
                                 [k \in DOMAIN gdcc |-> <<k[1], k[2]>>],
                                 level(DOMAIN gdcc, 3)))
  IN [gene_domain_class_counts |-> gdcc, gene_domain_matrix |-> gdm]

\* gene_domain_matrix with the oncogenic count divided by the likely neutral
\* count instead of the total
with_odds(gdm) ==
  LET m == with_column(gdm, <<"Total">>,
                       column_sum(gdm, Oncogenic, LikelyNeutral))
  IN with_column(m, <<"Oncogenic_Fraction">>,
       [r \in m.index |->
          fillna0(TrueDiv(m.cell[r][Oncogenic], m.cell[r][LikelyNeutral]))])

\* gene_domain_matrix with its Total and Oncogenic_Fraction columns
with_fraction(gdm) ==
  LET m == with_column(gdm, <<"Total">>,
                       column_sum(gdm, Oncogenic, LikelyNeutral))
  IN with_column(m, <<"Oncogenic_Fraction">>,
       [r \in m.index |->
          fillna0(TrueDiv(m.cell[r][Oncogenic], m.cell[r][<<"Total">>]))])

\* pivot(index=gene, columns=category, values=col).fillna(0) of a dense
\* table keyed by <<gene, category>>
heatmap(p, col) ==
  fillna(pivot(level(p.index, 1), level(p.index, 2), column(p, col)))

\* lines 230-283 when both class columns exist in gene_domain_matrix
D_CombinedHeatmap ==
  /\ script = "variants_in_domain" /\ pc = "combined_heatmap"
  /\ LET t == gene_domain_tables(g.variants_domains)
     IN /\ BothClasses \subseteq t.gene_domain_matrix.columns
        /\ LET gdm == with_fraction(t.gene_domain_matrix)
               de == g.domain_enrichment.t
           IN \E od \in SortedDesc(de.index, column(de, <<"Total">>)) :
                LET top_domains == head(od, n_domains)
                    combined_top ==
                      rows_where(gdm, 2, Range(top_domains))
                    gene_total ==
                      groupby_sum(combined_top, 1, <<"Total">>)
                IN \E og \in sorted_keys(gene_total) :
                     LET top_genes_combined == head(og, n_genes)
                         combined_top2 ==
                           rows_where(combined_top, 1,
                                      Range(top_genes_combined))
                     IN g' = bind(
                          [gene_domain_class_counts |->
                             t.gene_domain_class_counts,
                           gene_domain_matrix |-> gdm,
                           top_domains |-> top_domains,
                           top_genes_combined |-> top_genes_combined,
                           combined_top |-> combined_top2,
                           heatmap_combined |->
                             heatmap(combined_top2, <<"Oncogenic_Fraction">>)])
  /\ pc' = "driver_genes"
  /\ UNCHANGED <<script, warnings, header>>

\* lines 230-248 when no row with a gene symbol has one of the classes:
\* gene_domain_matrix["Oncogenic"] or ["Likely Neutral"] raises KeyError
D_CombinedHeatmapKeyError ==
  /\ script = "variants_in_domain" /\ pc = "combined_heatmap"
  /\ LET t == gene_domain_tables(g.variants_domains)
     IN /\ ~(BothClasses \subseteq t.gene_domain_matrix.columns)
        /\ g' = bind(t)
  /\ pc' = KeyError
  /\ UNCHANGED <<script, warnings, header>>

\* the entity-level table with the share taken of the gene's total instead
\* of the category's
fraction_of_gene(counts, total_name, fraction_name) ==
  LET keys == DOMAIN counts
      gene_total(x) == SumOver({k \in keys : k[1] = x}, counts)
  IN [index |-> keys,
      columns |-> {<<"Variant_Count">>, total_name, fraction_name},
      cell |-> [k \in keys |->
        (<<"Variant_Count">> :> Flt(counts[k], 1)) @@
        (total_name :> Flt(gene_total(k[1]), 1)) @@
        (fraction_name :>
           TrueDiv(Flt(counts[k], 1), Flt(gene_total(k[1]), 1)))]]

\* the entity-level table of lines 318-342 (and of variants_in_func_sites.py
\* lines 254-270): per <<gene, category>> the oncogenic count, the category's
\* total over the genes and the gene's share of it
fraction_of_category(counts, total_name, fraction_name) ==
  LET keys == DOMAIN counts
      category_total(c) == SumOver({k \in keys : k[2] = c}, counts)
  IN [index |-> keys,
      columns |-> {<<"Variant_Count">>, total_name, fraction_name},
      cell |-> [k \in keys |->
        (<<"Variant_Count">> :> Flt(counts[k], 1)) @@
        (total_name :> Flt(category_total(k[2]), 1)) @@
        (fraction_name :>
           TrueDiv(Flt(counts[k], 1), Flt(category_total(k[2]), 1)))]]

\* lines 318-342
D_DriverGenes ==
  /\ script = "variants_in_domain" /\ pc = "driver_genes"
  /\ LET oncogenic_variants ==
           where_eq(g.variants_domains, "ONCOGENIC", Oncogenic)
         counts ==
           groupby_size(oncogenic_variants, <<"Hugo_Symbol", "DOMAIN_NAME">>)
     IN \E o \in sorted_keys(as_float(counts)) :
          g' = bind(
            [oncogenic_variants |-> oncogenic_variants,
             gene_domain_counts |-> [t |-> counts, order |-> o],
             gene_domain_fraction |->
               [t |-> fraction_of_category(counts, <<"Domain_Total">>,
                                           <<"Fraction_of_Domain">>),
                order |-> o]])
  /\ pc' = "oncogenic_heatmap"
  /\ UNCHANGED <<script, warnings, header>>

\* lines 358-389
D_OncogenicHeatmap ==
  /\ script = "variants_in_domain" /\ pc = "oncogenic_heatmap"
  /\ LET gdf == g.gene_domain_fraction.t
         domain_total == groupby_sum(gdf, 2, <<"Variant_Count">>)
     IN \E od \in sorted_keys(domain_total) :
          LET top_domains == head(od, n_domains)
              gdf_top == rows_where(gdf, 2, Range(top_domains))
              gene_total ==
                groupby_sum(gdf_top, 1, <<"Variant_Count">>)
          IN \E og \in sorted_keys(gene_total) :
               LET top_genes == head(og, n_genes)
                   gdf_top2 ==
                     rows_where(gdf_top, 1, Range(top_genes))
               IN g' = bind(
                    [top_domains |-> top_domains,
                     top_genes |-> top_genes,
                     gene_domain_fraction_top |-> gdf_top2,
                     heatmap_df |-> heatmap(gdf_top2, <<"Fraction_of_Domain">>)])
  /\ pc' = "done"
  /\ UNCHANGED <<script, warnings, header>>

(***************************************************************************)
(* variants_in_func_sites.py                                               *)
(***************************************************************************)
\* a variant outside a functional site carries no FEATURE_TYPE
FuncSiteRows ==
  {r \in [ONCOGENIC : ClassLabels, Hugo_Symbol : GeneSymbols,
          FEATURE_TYPE : FeatureCells, IN_FUNC_SITE : {True, False, NaN}] :
     r.IN_FUNC_SITE # True => r.FEATURE_TYPE = NaN}

classes == <<Oncogenic, LikelyNeutral>>

filtered_sites ==
  <<(<<"Binding site">>), (<<"Modified residue">>), (<<"Region">>),
    (<<"Topological domain">>)>>

F_Load ==
  /\ script = "variants_in_func_sites" /\ pc = "load"
  /\ read_csv(Project(FuncSiteRows, header))
  /\ pc' = "filter"
  /\ UNCHANGED <<script, warnings, header>>

\* Series.astype(bool) on one cell: bool(nan) is True
astype_bool(v) == IF v = False THEN False ELSE True

\* lines 80-85
F_Filter ==
  /\ script = "variants_in_func_sites" /\ pc = "filter"
  /\ LET kept == isin(g.variants, "ONCOGENIC", Range(classes))
     IN g' = bind([variants |->
              [i \in 1..Len(kept) |->
                 [kept[i] EXCEPT !["IN_FUNC_SITE"] = astype_bool(@)]]])
  /\ pc' = "summary"
  /\ UNCHANGED <<script, warnings, header>>

\* one pass of the loop of lines 96-108
summary_row(variants, c) ==
  LET subset == where_eq(variants, "ONCOGENIC", c)
      total == Len(subset)
      inside == Cardinality({i \in 1..Len(subset) :
                               subset[i]["IN_FUNC_SITE"] = True})
  IN [Class |-> c, Total_variants |-> total, Inside_func_site |-> inside,
      Outside_func_site |-> total - inside,
      Fraction_inside |->
        IF total > 0 THEN scalar_div(inside, total) ELSE Flt(0, 1)]

\* lines 95-110
F_Summary ==
  /\ script = "variants_in_func_sites" /\ pc = "summary"
  /\ g' = bind([summary |->
                  [i \in 1..Len(classes) |-> summary_row(g.variants, classes[i])]])
  /\ pc' = "expand"
  /\ UNCHANGED <<script, warnings, header>>

\* lines 122-130
F_Expand ==
  /\ script = "variants_in_func_sites" /\ pc = "expand"
  /\ "FEATURE_TYPE" \in header
  /\ g' = bind([expanded |-> expand(g.variants, "FEATURE_TYPE")])
  /\ pc' = "counts"
  /\ UNCHANGED <<script, warnings, header>>

\* lines 122-124 on a file without the column FEATURE_TYPE:
\* dropna(subset=["FEATURE_TYPE"]) raises KeyError, expanded is not bound
F_ExpandKeyError ==
  /\ script = "variants_in_func_sites" /\ pc = "expand"
  /\ "FEATURE_TYPE" \notin header
  /\ pc' = KeyError
  /\ UNCHANGED <<script, g, warnings, header>>

\* lines 141-146
F_Counts ==
  /\ script = "variants_in_func_sites" /\ pc = "counts"
  /\ g' = bind([counts |->
                  groupby_size(g.expanded, <<"FEATURE_TYPE", "ONCOGENIC">>)])
  /\ pc' = "fractions"
  /\ UNCHANGED <<script, warnings, header>>

\* counts.merge(totals, left_on="ONCOGENIC", right_index=True) and the
\* Fraction column: the rows of counts whose class has a total
fraction_table(counts, totals) ==
  LET keys == {k \in DOMAIN counts : k[2] \in DOMAIN totals}
  IN [index |-> keys,
      columns |-> {<<"Variant_Count">>, <<"Total">>, <<"Fraction">>},
      cell |-> [k \in keys |->
        (<<"Variant_Count">> :> Flt(counts[k], 1)) @@
        (<<"Total">> :> Flt(totals[k[2]], 1)) @@
        (<<"Fraction">> :> TrueDiv(Flt(counts[k], 1), Flt(totals[k[2]], 1)))]]

\* lines 196-199
F_Fractions ==
  /\ script = "variants_in_func_sites" /\ pc = "fractions"
  /\ LET totals == value_counts(g.variants, "ONCOGENIC")
     IN g' = bind([totals |-> totals,
                   counts |-> fraction_table(g.counts, totals)])
  /\ pc' = "gene_features"
  /\ UNCHANGED <<script, warnings, header>>

\* a filter that keeps every row
allow_all(df) == df

\* line 249: expanded[expanded["FEATURE_TYPE"].isin(filtered_sites)]
allow_listed(df) == isin(df, "FEATURE_TYPE", Range(filtered_sites))

\* lines 247-270
F_GeneFeatures ==
  /\ script = "variants_in_func_sites" /\ pc = "gene_features"
  /\ LET expanded_filtered == allow_listed(g.expanded)
         onco == where_eq(expanded_filtered, "ONCOGENIC", Oncogenic)
         gfc == groupby_size(onco, <<"Hugo_Symbol", "FEATURE_TYPE">>)
     IN \E o \in sorted_keys(as_float(gfc)) :
          g' = bind(
            [expanded_filtered |-> expanded_filtered,
             onco |-> onco,
             gene_feature_counts |-> [t |-> gfc, order |-> o],
             gene_feature_fraction |->
               [t |-> fraction_of_category(gfc, <<"Feature_Total">>,
                                           <<"Fraction_of_Feature">>),
                order |-> o]])
  /\ pc' = "top_genes_plots"
  /\ UNCHANGED <<script, warnings, header>>

\* the subsets the loop of lines 285-290 (and 362-367) can build: for each
\* feature type, the first n_genes keys of that feature type in one of the
\* orders sort_values may give them
plot_subsets(p, col) ==
  LET of(ft) == {k \in p.index : k[2] = ft}
      metric(ft) == [k \in of(ft) |-> p.cell[k][col]]
  IN {f \in [Range(filtered_sites) ->
               UNION {{head(o, n_genes) : o \in sorted_keys(metric(ft))} :
                      ft \in Range(filtered_sites)}] :
        \A ft \in Range(filtered_sites) :
          \E o \in sorted_keys(metric(ft)) : f[ft] = head(o, n_genes)}

\* lines 285-290: subset, for every pass of the loop
F_TopGenesPlots ==
  /\ script = "variants_in_func_sites" /\ pc = "top_genes_plots"
  /\ \E f \in plot_subsets(g.gene_feature_fraction.t, <<"Fraction_of_Feature">>) :
       g' = bind([subset |-> f])
  /\ pc' = "comparison"
  /\ UNCHANGED <<script, warnings, header>>

\* a.merge(b, on=keys, how="outer", suffixes).fillna(0) of two count tables
outer_merge(a, b, name_a, name_b) ==
  LET keys == DOMAIN a \cup DOMAIN b
      at(t, k) == IF k \in DOMAIN t THEN Flt(t[k], 1) ELSE FloatNaN
  IN fillna([index |-> keys,
             columns |-> {name_a, name_b},
             cell |-> [k \in keys |->
                         (name_a :> at(a, k)) @@ (name_b :> at(b, k))]])

\* lines 323-347
F_Comparison ==
  /\ script = "variants_in_func_sites" /\ pc = "comparison"
  /\ LET likely_neutral ==
           where_eq(g.expanded_filtered, "ONCOGENIC", LikelyNeutral)
         likely_neutral_counts ==
           groupby_size(likely_neutral, <<"Hugo_Symbol", "FEATURE_TYPE">>)
         gfc == g.gene_feature_counts.t
         comparison ==
           outer_merge(gfc, likely_neutral_counts,
                       <<"Variant_Count_oncogenic">>,
                       <<"Variant_Count_likely_neutral">>)
         top_onco_genes == {k[1] : k \in DOMAIN gfc}
         comparison_top ==
           rows_where(comparison, 1, top_onco_genes)
     IN g' = bind(
          [likely_neutral |-> likely_neutral,
           likely_neutral_counts |-> likely_neutral_counts,
           comparison |-> comparison,
           top_onco_genes |-> top_onco_genes,
           comparison_top |->
             with_column(comparison_top, <<"ratio_onco_neutral">>,
               smoothed_ratio(comparison_top, <<"Variant_Count_oncogenic">>,
                              <<"Variant_Count_likely_neutral">>))])
  /\ pc' = "ratio_plots"
  /\ UNCHANGED <<script, warnings, header>>

\* lines 362-367: subset, for every pass of the loop
F_RatioPlots ==
  /\ script = "variants_in_func_sites" /\ pc = "ratio_plots"
  /\ \E f \in plot_subsets(g.comparison_top, <<"ratio_onco_neutral">>) :
       g' = bind([subset |-> f])
  /\ pc' = "top_genes_per_feature"
  /\ UNCHANGED <<script, warnings, header>>

\* a comes before b when the rows standing in `order` are put in descending
\* order of the metric and rows of equal metric keep the order they stand in
precedes(order, metric, a, b) ==
  LET pos(k) == CHOOSE i \in 1..Len(order) : order[i] = k
  IN \/ FLt(metric[b], metric[a])
     \/ FEq(metric[a], metric[b]) /\ pos(a) < pos(b)

\* DataFrame.nlargest(N, col) of the rows `keys` of a table whose rows stand
\* in `order`: the N largest, rows of equal value in the order they stand in
\* (keep="first")
nlargest(N, keys, order, metric) ==
  {k \in keys :
     Cardinality({x \in keys : precedes(order, metric, x, k)}) < N}

\* lines 399-415
F_TopGenesPerFeature ==
  /\ script = "variants_in_func_sites" /\ pc = "top_genes_per_feature"
  /\ LET gff == g.gene_feature_fraction
         fts == {k[2] : k \in gff.t.index}
         top == UNION {nlargest(n_genes, {k \in gff.t.index : k[2] = ft},
                                gff.order,
                                column(gff.t, <<"Fraction_of_Feature">>)) :
                       ft \in fts}
         top_genes_per_feature ==
           [gff.t EXCEPT !.index = top, !.cell = [k \in top |-> gff.t.cell[k]]]
     IN g' = bind([top_genes_per_feature |-> top_genes_per_feature,
                   pivot |-> heatmap(top_genes_per_feature,
                                     <<"Fraction_of_Feature">>)])
  /\ pc' = "done"
  /\ UNCHANGED <<script, warnings, header>>

(***************************************************************************)
(* variants_in_hotspots.py                                                 *)
(***************************************************************************)
HotspotRows ==
  [ONCOGENIC : ClassLabels, Hugo_Symbol : GeneSymbols,
   Hotspot_Type : HotspotCells]

H_Load ==
  /\ script = "variants_in_hotspots" /\ pc = "load"
  /\ read_csv(Project(HotspotRows, header))
  /\ pc' = "in_hotspot"
  /\ UNCHANGED <<script, warnings, header>>

\* line 59: the loaded table gets the column In_Hotspot
H_InHotspot ==
  /\ script = "variants_in_hotspots" /\ pc = "in_hotspot"
  /\ g' = bind([variants |->
            [i \in 1..Len(g.variants) |->
               ("In_Hotspot" :>
                  (IF isna(g.variants[i]["Hotspot_Type"]) THEN False ELSE True))
               @@ g.variants[i]]])
  /\ pc' = "overview"
  /\ UNCHANGED <<script, warnings, header>>

\* the number of rows, whatever the column holds
count_rows(df, col) == Len(df)

\* df[col].sum() and (~df[col]).sum() of a boolean column
count_true(df, col) == Cardinality({i \in 1..Len(df) : df[i][col] = True})
count_false(df, col) == Cardinality({i \in 1..Len(df) : df[i][col] # True})

\* a / b * 100
percent(a, b) == LET q == scalar_div(a, b) IN Flt(100 * q.n, q.d)

\* lines 66-82
H_Overview ==
  /\ script = "variants_in_hotspots" /\ pc = "overview"
  /\ LET total_num == Len(g.variants)
         variants_in_hotspots == count_true(g.variants, "In_Hotspot")
     IN /\ g' = bind(
             [total_num |-> total_num,
              variants_in_hotspots |-> variants_in_hotspots,
              variants_not_in_hotspots |-> count_false(g.variants, "In_Hotspot"),
              fraction_in_hotspots |-> percent(variants_in_hotspots, total_num)])
        /\ warnings' = warnings \cup div_warning("fraction_in_hotspots", total_num)
  /\ pc' = "oncogenic"
  /\ UNCHANGED <<script, header>>

\* lines 90-111
H_Oncogenic ==
  /\ script = "variants_in_hotspots" /\ pc = "oncogenic"
  /\ LET oncogenic == where_eq(g.variants, "ONCOGENIC", Oncogenic)
         likely_neutral == where_eq(g.variants, "ONCOGENIC", LikelyNeutral)
         oncogenic_in_hotspots == count_true(oncogenic, "In_Hotspot")
     IN /\ g' = bind(
             [oncogenic |-> oncogenic,
              likely_neutral |-> likely_neutral,
              oncogenic_in_hotspots |-> oncogenic_in_hotspots,
              oncogenic_not_in_hotspots |-> count_false(oncogenic, "In_Hotspot"),
              fraction_oncogenic_in_hotspots |->
                percent(oncogenic_in_hotspots, Len(oncogenic)),
              fraction_oncogenic |->
                percent(oncogenic_in_hotspots, g.variants_in_hotspots)])
        /\ warnings' = warnings
             \cup div_warning("fraction_oncogenic_in_hotspots", Len(oncogenic))
             \cup div_warning("fraction_oncogenic", g.variants_in_hotspots)
  /\ pc' = "likely_neutral"
  /\ UNCHANGED <<script, header>>

\* lines 122-135
H_LikelyNeutral ==
  /\ script = "variants_in_hotspots" /\ pc = "likely_neutral"
  /\ LET neutral_in_hotspots == count_true(g.likely_neutral, "In_Hotspot")
     IN /\ g' = bind(
             [neutral_in_hotspots |-> neutral_in_hotspots,
              neutral_not_in_hotspots |->
                count_false(g.likely_neutral, "In_Hotspot"),
              fraction_neutral_in_hotspots |->
                percent(neutral_in_hotspots, Len(g.likely_neutral)),
              fraction_neutral |->
                percent(neutral_in_hotspots, g.variants_in_hotspots)])
        /\ warnings' = warnings
             \cup div_warning("fraction_neutral_in_hotspots", Len(g.likely_neutral))
             \cup div_warning("fraction_neutral", g.variants_in_hotspots)
  /\ pc' = "counts"
  /\ UNCHANGED <<script, header>>

\* lines 146-154
H_Counts ==
  /\ script = "variants_in_hotspots" /\ pc = "counts"
  /\ LET variants_onco_neutral == isin(g.variants, "ONCOGENIC", Range(classes))
     IN g' = bind(
          [variants_onco_neutral |-> variants_onco_neutral,
           counts |-> groupby_size(variants_onco_neutral,
                                   <<"In_Hotspot", "ONCOGENIC">>)])
  /\ pc' = "fractions"
  /\ UNCHANGED <<script, warnings, header>>

\* lines 188-191
H_Fractions ==
  /\ script = "variants_in_hotspots" /\ pc = "fractions"
  /\ LET totals == value_counts(g.variants_onco_neutral, "ONCOGENIC")
     IN g' = bind([totals |-> totals,
                   counts |-> fraction_table(g.counts, totals)])
  /\ pc' = "onco_genes"
  /\ UNCHANGED <<script, warnings, header>>

\* lines 226-248
H_OncoGenes ==
  /\ script = "variants_in_hotspots" /\ pc = "onco_genes"
  /\ LET oncogenic == where_eq(g.variants_onco_neutral, "ONCOGENIC", Oncogenic)
         oncogenic_hotspots == where_eq(oncogenic, "In_Hotspot", True)
         counts == groupby_size(oncogenic_hotspots, <<"Hugo_Symbol">>)
     IN \E o \in sorted_keys(as_float(counts)) :
          g' = bind([oncogenic |-> oncogenic,
                     oncogenic_hotspots |-> oncogenic_hotspots,
                     onco_genes |-> [t |-> counts, order |-> o],
                     top_oncogenes |-> head(o, n_genes)])
  /\ pc' = "gene_summary"
  /\ UNCHANGED <<script, warnings, header>>

\* line 321: Total_Oncogenic >= 10
min_total_oncogenic == 10

\* line 322: Hotspot_Fraction >= 0.3
min_hotspot_fraction == Flt(3, 10)

\* a selection that keeps every gene
every_gene(s) == s.index

\* lines 320-322: the genes of the summary that pass both thresholds
hotspot_driven(s) ==
  {k \in s.index :
     /\ FLe(Flt(min_total_oncogenic, 1), s.cell[k][<<"Total_Oncogenic">>])
     /\ FLe(min_hotspot_fraction, s.cell[k][<<"Hotspot_Fraction">>])}

\* lines 283-323
H_GeneSummary ==
  /\ script = "variants_in_hotspots" /\ pc = "gene_summary"
  /\ LET gene_totals == groupby_size(g.oncogenic, <<"Hugo_Symbol">>)
         gene_hotspots == groupby_size(g.oncogenic_hotspots, <<"Hugo_Symbol">>)
         \* pd.concat([...], axis=1).fillna(0): the outer join on the genes
         joined == outer_merge(gene_totals, gene_hotspots,
                               <<"Total_Oncogenic">>, <<"Hotspot_Oncogenic">>)
         summary == with_column(joined, <<"Hotspot_Fraction">>,
                      [k \in joined.index |->
                         TrueDiv(joined.cell[k][<<"Hotspot_Oncogenic">>],
                                 joined.cell[k][<<"Total_Oncogenic">>])])
         total == column(summary, <<"Total_Oncogenic">>)
         selected == hotspot_driven(summary)
     IN \E o \in SortedDesc(summary.index, total) :
          \E o2 \in SortedDesc(selected, total) :
            g' = bind(
              [gene_totals |-> gene_totals,
               gene_hotspots |-> gene_hotspots,
               oncogenic_gene_summary |-> [t |-> summary, order |-> o],
               top_genes |->
                 [t |-> [summary EXCEPT
                           !.index = selected,
                           !.cell = [k \in selected |-> summary.cell[k]]],
                  order |-> o2]])
  /\ pc' = "done"
  /\ UNCHANGED <<script, warnings, header>>

(***************************************************************************)
(* top_genes.py                                                            *)
(***************************************************************************)
LikelyOncogenic == <<"Likely Oncogenic">>

TopGenesRows ==
  [ONCOGENIC : ClassLabels \cup {LikelyOncogenic}, Hugo_Symbol : GeneSymbols]

T_Load ==
  /\ script = "top_genes" /\ pc = "load"
  /\ read_csv(Project(TopGenesRows, header))
  /\ pc' = "gene_counts"
  /\ UNCHANGED <<script, warnings, header>>

\* df[col].value_counts().reset_index(name="Variant_Count"): the counts, in
\* one of the orders the descending sort of value_counts may give them
gene_counts(df) ==
  LET t == value_counts(df, "Hugo_Symbol")
  IN {[t |-> t, order |-> o] : o \in sorted_keys(as_float(t))}

\* lines 77-122
T_GeneCounts ==
  /\ script = "top_genes" /\ pc = "gene_counts"
  /\ LET oncogenic_variants == where_eq(g.variants, "ONCOGENIC", Oncogenic)
         likely_oncogenic_variants ==
           where_eq(g.variants, "ONCOGENIC", LikelyOncogenic)
         neutral_variants == where_eq(g.variants, "ONCOGENIC", LikelyNeutral)
     IN \E og \in gene_counts(oncogenic_variants),
           lg \in gene_counts(likely_oncogenic_variants),
           ng \in gene_counts(neutral_variants) :
          g' = bind([oncogenic_variants |-> oncogenic_variants,
                     oncogenic_genes |-> og,
                     likely_oncogenic_variants |-> likely_oncogenic_variants,
                     likely_oncogenic_genes |-> lg,
                     neutral_variants |-> neutral_variants,
                     neutral_genes |-> ng])
  /\ pc' = "distribution"
  /\ UNCHANGED <<script, warnings, header>>

wanted_classes == <<Oncogenic, LikelyNeutral>>

\* lines 211-229
T_Distribution ==
  /\ script = "top_genes" /\ pc = "distribution"
  /\ LET top_onco_genes == head(g.oncogenic_genes.order, n_genes)
         top_genes_variants ==
           isin(g.variants, "Hugo_Symbol", Range(top_onco_genes))
         distribution ==
           groupby_size(top_genes_variants, <<"Hugo_Symbol", "ONCOGENIC">>)
         kept == {k \in DOMAIN distribution : k[2] \in Range(wanted_classes)}
     IN g' = bind([top_onco_genes |-> top_onco_genes,
                   top_genes_variants |-> top_genes_variants,
                   distribution |-> distribution,
                   distribution_filtered |-> [k \in kept |-> distribution[k]]])
  /\ pc' = "pivot"
  /\ UNCHANGED <<script, warnings, header>>

\* pivot.div(pivot.sum(axis=1), axis=0)
row_share(p) ==
  LET row_sum(r) == FSumOver(p.columns, p.cell[r])
  IN [p EXCEPT !.cell = [r \in p.index |-> [c \in p.columns |->
                           TrueDiv(p.cell[r][c], row_sum(r))]]]

\* pivot.div(pivot.sum(axis=1), axis=0) * 100
row_percent(p) ==
  LET row_sum(r) == FSumOver(p.columns, p.cell[r])
      pct(x, s) == LET q == TrueDiv(x, s) IN Flt(100 * q.n, q.d)
  IN [p EXCEPT !.cell = [r \in p.index |-> [c \in p.columns |->
                           pct(p.cell[r][c], row_sum(r))]]]

\* lines 278-284
T_Pivot ==
  /\ script = "top_genes" /\ pc = "pivot"
  /\ LET df == g.distribution_filtered
         pivot_ == fillna(pivot_counts(df, level(DOMAIN df, 1),
                                       level(DOMAIN df, 2)))
     IN g' = bind([pivot |-> pivot_, pivot_pct |-> row_percent(pivot_)])
  /\ pc' = "done"
  /\ UNCHANGED <<script, warnings, header>>

(***************************************************************************)
(* gnomAD_freq.py                                                          *)
(***************************************************************************)
\* gnomAD_AF cells: missing, a text that is no number, "0.01" and "0.02"
\* (a text is the sequence of its characters)
AFCells ==
  {NaN, <<".">>, <<"0", ".", "0", "1">>, <<"0", ".", "0", "2">>}

GnomadRows == [ONCOGENIC : ClassLabels, gnomAD_AF : AFCells]

GnomadColumns == {"ONCOGENIC", "gnomAD_AF"}

\* lines 129-141: the classes analyze_gnomad_af is called for
statuses ==
  <<(<<"Unknown">>), LikelyOncogenic, Oncogenic, (<<"Inconclusive">>),
    LikelyNeutral>>

DigitValue ==
  ("0" :> 0) @@ ("1" :> 1) @@ ("2" :> 2) @@ ("3" :> 3) @@ ("4" :> 4) @@
  ("5" :> 5) @@ ("6" :> 6) @@ ("7" :> 7) @@ ("8" :> 8) @@ ("9" :> 9)

RECURSIVE digits_value(_)
digits_value(s) ==
  IF s = <<>> THEN 0
  ELSE 10 * digits_value(SubSeq(s, 1, Len(s) - 1)) + DigitValue[s[Len(s)]]

RECURSIVE Pow10(_)
Pow10(k) == IF k = 0 THEN 1 ELSE 10 * Pow10(k - 1)

\* pd.to_numeric(errors="coerce") on one cell: the value of a decimal
\* numeral, nan for a missing cell and for any other text
to_numeric(v) ==
  LET dots == {i \in 1..Len(v) : v[i] = "."}
      digits == SelectSeq(v, LAMBDA ch : ch \in DOMAIN DigitValue)
  IN IF /\ \A i \in 1..Len(v) : v[i] \in DOMAIN DigitValue \cup {"."}
        /\ Cardinality(dots) <= 1
        /\ digits # <<>>
     THEN Flt(digits_value(digits),
              IF dots = {} THEN 1
              ELSE Pow10(Len(v) - (CHOOSE i \in dots : TRUE)))
     ELSE FloatNaN

\* subset["gnomAD_AF"] = pd.to_numeric(subset["gnomAD_AF"], errors="coerce")
assign_numeric(df, col) ==
  [i \in 1..Len(df) |-> [df[i] EXCEPT ![col] = to_numeric(df[i][col])]]

notna(x) == x # FloatNaN

\* line 108: x > 0.01
above_cutoff(x) == FLt(Flt(1, 100), x)

\* line 109: x <= 0.01
within_cutoff(x) == FLe(x, Flt(1, 100))

count_where(df, col, test) ==
  Cardinality({i \in 1..Len(df) : test[df[i][col]]})

G_Load ==
  /\ script = "gnomAD_freq" /\ pc = "load"
  /\ read_csv(Project(GnomadRows, header))
  /\ pc' = "calls"
  /\ UNCHANGED <<script, warnings, header>>

\* the frames of the calls of analyze_gnomad_af that have begun, by status
calls == IF "calls" \in DOMAIN g THEN g.calls ELSE <<>>

\* the position of the call for status: "call" before it has begun
at(status) == IF status \in DOMAIN calls THEN calls[status].at ELSE "call"

set_frame(status, frame) == bind([calls |-> (status :> frame) @@ calls])

\* lines 65-66: the call reads the table and takes its own copy of the rows
G_Subset(status) ==
  /\ script = "gnomAD_freq" /\ pc = "calls" /\ at(status) = "call"
  /\ LET subset == where_eq(g.variants, "ONCOGENIC", status)
     IN g' = set_frame(status, [at |-> "subset", subset |-> subset,
                                total |-> Len(subset)])
  /\ UNCHANGED <<script, pc, warnings, header>>

\* lines 70-75
G_Convert(status) ==
  /\ script = "gnomAD_freq" /\ pc = "calls" /\ at(status) = "subset"
  /\ LET f == calls[status]
         subset == assign_numeric(f.subset, "gnomAD_AF")
         subset_af == SelectSeq(subset, LAMBDA r : notna(r.gnomAD_AF))
         missing_af == Len(subset) - Len(subset_af)
     IN /\ g' = set_frame(status,
                  [at |-> "converted", subset |-> subset, total |-> f.total,
                   subset_af |-> subset_af, missing_af |-> missing_af,
                   missing_pct |-> percent(missing_af, f.total)])
        /\ warnings' = warnings \cup div_warning(<<"missing_af", status>>,
                                                 f.total)
  /\ UNCHANGED <<script, pc, header>>

\* lines 108-113; the frame keeps what the call has printed
G_Count(status) ==
  /\ script = "gnomAD_freq" /\ pc = "calls" /\ at(status) = "converted"
  /\ LET f == calls[status]
         af == {f.subset_af[i].gnomAD_AF : i \in 1..Len(f.subset_af)}
     IN g' = set_frame(status,
               [at |-> "returned", total |-> f.total,
                missing_af |-> f.missing_af,
                available |-> Len(f.subset_af),
                common |-> count_where(f.subset_af, "gnomAD_AF",
                                       [x \in af |-> above_cutoff(x)]),
                rare |-> count_where(f.subset_af, "gnomAD_AF",
                                     [x \in af |-> within_cutoff(x)])])
  /\ UNCHANGED <<script, pc, warnings, header>>

\* lines 156-164
G_Filtered ==
  /\ script = "gnomAD_freq" /\ pc = "calls"
  /\ \A i \in 1..Len(statuses) : at(statuses[i]) = "returned"
  /\ LET wanted == <<Oncogenic, LikelyNeutral>>
         numeric == assign_numeric(isin(g.variants, "ONCOGENIC", Range(wanted)),
                                   "gnomAD_AF")
         known == SelectSeq(numeric, LAMBDA r : notna(r.gnomAD_AF))
     IN g' = bind([filtered |->
                     SelectSeq(known,
                               LAMBDA r : FLt(Flt(0, 1), r.gnomAD_AF))])
  /\ pc' = "done"
  /\ UNCHANGED <<script, warnings, header>>

\* the columns the script reads from the input file, and the multi-valued
\* one among them that it expands
InputColumns ==
  [variants_in_domain |-> {"ONCOGENIC", "Hugo_Symbol", "DOMAIN_NAME"},
   variants_in_func_sites |->
     {"ONCOGENIC", "Hugo_Symbol", "FEATURE_TYPE", "IN_FUNC_SITE"},
   variants_in_hotspots |-> {"ONCOGENIC", "Hugo_Symbol", "Hotspot_Type"},
   top_genes |-> {"ONCOGENIC", "Hugo_Symbol"}]
ExpandedColumn ==
  [variants_in_domain |-> {"DOMAIN_NAME"},
   variants_in_func_sites |-> {"FEATURE_TYPE"},
   variants_in_hotspots |-> {},
   top_genes |-> {}]

\* a script starts on an input file that has the columns it reads, or one
\* that lacks the column it expands
Init ==
  /\ script \in DOMAIN InputColumns
  /\ header \in {InputColumns[script]} \cup
                {InputColumns[script] \ {c} : c \in ExpandedColumn[script]}
  /\ pc = "load"
  /\ g = <<>>
  /\ warnings = {}

Next ==
  \/ D_Load
  \/ D_CountInOut
  \/ D_CountInOutKeyError
  \/ D_Explode
  \/ D_DomainEnrichment
  \/ D_DomainEnrichmentKeyError
  \/ D_TopDomainsPlot
  \/ D_EnrichmentPlot
  \/ D_CombinedHeatmap
  \/ D_CombinedHeatmapKeyError
  \/ D_DriverGenes
  \/ D_OncogenicHeatmap
  \/ F_Load
  \/ F_Filter
  \/ F_Summary
  \/ F_Expand
  \/ F_ExpandKeyError
  \/ F_Counts
  \/ F_Fractions
  \/ F_GeneFeatures
  \/ F_TopGenesPlots
  \/ F_Comparison
  \/ F_RatioPlots
  \/ F_TopGenesPerFeature
  \/ H_Load
  \/ H_InHotspot
  \/ H_Overview
  \/ H_Oncogenic
  \/ H_LikelyNeutral
  \/ H_Counts
  \/ H_Fractions
  \/ H_OncoGenes
  \/ H_GeneSummary
  \/ T_Load
  \/ T_GeneCounts
  \/ T_Distribution
  \/ T_Pivot

Spec == Init /\ [][Next]_vars

(***************************************************************************)
(* The runs of variants_in_func_sites.py alone.                            *)
(***************************************************************************)
InitFuncSites == Init /\ script = "variants_in_func_sites"

NextFuncSites ==
  \/ F_Load
  \/ F_Filter
  \/ F_Summary
  \/ F_Expand
  \/ F_ExpandKeyError
  \/ F_Counts
  \/ F_Fractions
  \/ F_GeneFeatures
  \/ F_TopGenesPlots
  \/ F_Comparison
  \/ F_RatioPlots
  \/ F_TopGenesPerFeature

SpecFuncSites == InitFuncSites /\ [][NextFuncSites]_vars

(***************************************************************************)
(* Expansion and counting on fields with blanks and other delimiters.      *)
(***************************************************************************)
\* cells of a multi-valued column: missing, "Kinase", " Kinase ", " ",
\* "Kinase; ", "Kinase;SH2", "Kinase; SH2", "Kinase,SH2" and " Kinase|SH2 "
TokenCells ==
  {NaN, <<"Kinase">>, <<" ", "Kinase", " ">>, <<" ">>,
   <<"Kinase", ";", " ">>, <<"Kinase", ";", "SH2">>,
   <<"Kinase", ";", " ", "SH2">>,
   <<"Kinase", ",", "SH2">>, <<" ", "Kinase", "|", "SH2", " ">>}

\* the rows of the two scripts that expand a column, with such cells
TokenRows ==
  [variants_in_domain |->
     [ONCOGENIC : ClassLabels, Hugo_Symbol : {<<"A">>},
      DOMAIN_NAME : TokenCells],
   variants_in_func_sites |->
     [ONCOGENIC : ClassLabels, Hugo_Symbol : {<<"A">>},
      FEATURE_TYPE : TokenCells, IN_FUNC_SITE : {True}]]

\* a script has loaded a table of such rows
InitTokens ==
  /\ script \in DOMAIN TokenRows
  /\ header = InputColumns[script]
  /\ pc = IF script = "variants_in_domain" THEN "count_in_out" ELSE "filter"
  /\ g \in {[variants |-> tbl] : tbl \in Tables(TokenRows[script])}
  /\ warnings = {}

\* the sections of the two scripts up to their count tables
NextTokens ==
  \/ D_CountInOut
  \/ D_Explode
  \/ D_DomainEnrichment
  \/ D_DomainEnrichmentKeyError
  \/ F_Filter
  \/ F_Summary
  \/ F_Expand
  \/ F_Counts

SpecTokens == InitTokens /\ [][NextTokens]_vars

(***************************************************************************)
(* gnomAD_freq.py, with the calls of analyze_gnomad_af in any order and    *)
(* interleaving; the order of lines 129-141 is one of them.                *)
(***************************************************************************)
InitGnomad ==
  /\ script = "gnomAD_freq"
  /\ header = GnomadColumns
  /\ pc = "load"
  /\ g = <<>>
  /\ warnings = {}

NextGnomad ==
  \/ G_Load
  \/ \E i \in 1..Len(statuses) : G_Subset(statuses[i])
  \/ \E i \in 1..Len(statuses) : G_Convert(statuses[i])
  \/ \E i \in 1..Len(statuses) : G_Count(statuses[i])
  \/ G_Filtered

SpecGnomad == InitGnomad /\ [][NextGnomad]_vars

(***************************************************************************)
(* The gene sections of variants_in_hotspots.py on tables with up to       *)
(* MaxOncogenic oncogenic variants of a gene.                               *)
(***************************************************************************)
\* largest number of oncogenic variants of one gene
MaxOncogenic == 11

\* n copies of a hotspot-script row
row_copies(n, class, gene, hotspot) ==
  [i \in 1..n |->
     [ONCOGENIC |-> class, Hugo_Symbol |-> gene,
      Hotspot_Type |-> IF hotspot THEN <<"single residue">> ELSE NaN,
      In_Hotspot |-> IF hotspot THEN True ELSE False]]

\* the table, after the class filter of line 146, of two genes with ta and tb
\* oncogenic variants of which ha and hb are in a hotspot, with or without a
\* likely neutral hotspot variant of gene A and an oncogenic hotspot variant
\* that has no gene symbol
gene_table(ta, ha, tb, hb, others) ==
  row_copies(ha, Oncogenic, <<"A">>, TRUE) \o
  row_copies(ta - ha, Oncogenic, <<"A">>, FALSE) \o
  row_copies(hb, Oncogenic, <<"B">>, TRUE) \o
  row_copies(tb - hb, Oncogenic, <<"B">>, FALSE) \o
  (IF others
   THEN row_copies(1, LikelyNeutral, <<"A">>, TRUE) \o
        row_copies(1, Oncogenic, NaN, TRUE)
   ELSE <<>>)

\* the script has reached line 226 with such a table
InitHotspotGenes ==
  /\ script = "variants_in_hotspots"
  /\ header = InputColumns[script]
  /\ pc = "onco_genes"
  /\ \E ta, tb \in 0..MaxOncogenic :
       \E ha \in 0..ta, hb \in 0..tb, others \in BOOLEAN :
         g = [variants_onco_neutral |-> gene_table(ta, ha, tb, hb, others)]
  /\ warnings = {}

NextHotspotGenes ==
  \/ H_OncoGenes
  \/ H_GeneSummary

SpecHotspotGenes == InitHotspotGenes /\ [][NextHotspotGenes]_vars

(***************************************************************************)
(* Properties.                                                             *)
(***************************************************************************)
InDomain == script = "variants_in_domain"
InFuncSites == script = "variants_in_func_sites"
InHotspots == script = "variants_in_hotspots"
InTopGenes == script = "top_genes"

bound(name) == name \in DOMAIN g

\* the number of rows of df that hold v in col (and class c)
rows_with(df, col, v) == Cardinality({i \in 1..Len(df) : df[i][col] = v})
rows_with_class(df, col, v, c) ==
  Cardinality({i \in 1..Len(df) : df[i][col] = v /\ df[i]["ONCOGENIC"] = c})

\* the sum, over the rows whose cell is not missing, of the number of tokens
token_total(df, col) ==
  SumOver({i \in 1..Len(df) : ~isna(df[i][col])},
          [i \in 1..Len(df) |-> Len(str_split(df[i][col]))])

\* C1: the expanded table has as many rows as the records with a non-missing
\* field have tokens: k rows for a record of k tokens, none for a record
\* whose field is missing.
C1_ExpansionCountPreserving ==
  /\ (InDomain /\ pc = "domain_enrichment") =>
       Len(g.variants_domains) = token_total(g.variants, "DOMAIN_NAME")
  /\ (InFuncSites /\ bound("expanded")) =>
       Len(g.expanded) = token_total(g.variants, "FEATURE_TYPE")

\* a table with a two-token record and a record whose field is missing has
\* been expanded
C1_Witness ==
  /\ InDomain /\ pc = "domain_enrichment"
  /\ \E i, j \in 1..Len(g.variants) :
       /\ isna(g.variants[i]["DOMAIN_NAME"])
       /\ ~isna(g.variants[j]["DOMAIN_NAME"])
       /\ Len(str_split(g.variants[j]["DOMAIN_NAME"])) = 2
  /\ Len(g.variants_domains) = 2

\* the values a column of a row table holds
categories(df, col) == {df[i][col] : i \in 1..Len(df)}

\* (a + 1) / (b + 1) of two counts
smoothed(a, b) == Flt(a + 1, b + 1)

\* the <<gene, feature type>> pairs that have a row among the allow-listed
\* expanded rows, and their count in one class
pairs_of(df) ==
  {<<df[i]["Hugo_Symbol"], df[i]["FEATURE_TYPE"]>> :
     i \in {j \in 1..Len(df) : ~isna(df[j]["Hugo_Symbol"])}}
pair_count(df, k, c) ==
  Cardinality({i \in 1..Len(df) :
                 /\ df[i]["Hugo_Symbol"] = k[1]
                 /\ df[i]["FEATURE_TYPE"] = k[2]
                 /\ df[i]["ONCOGENIC"] = c})

\* C2: once the enrichment section has run, every category with a row in
\* either class has the ratio (count(Oncogenic) + 1) / (count(Likely
\* Neutral) + 1), the absent class counted as 0; in the functional-site
\* comparison the same for every <<gene, feature type>> pair.
C2_RatioForEveryCategory ==
  /\ (InDomain /\ bound("domain_pivot")) =>
       LET dp == g.domain_pivot
           vd == g.variants_domains
       IN \A d \in categories(vd, "DOMAIN_NAME") :
            /\ d \in dp.index
            /\ <<"Onco_Neutral_Ratio">> \in dp.columns
            /\ FEq(dp.cell[d][<<"Onco_Neutral_Ratio">>],
                   smoothed(rows_with_class(vd, "DOMAIN_NAME", d, Oncogenic),
                            rows_with_class(vd, "DOMAIN_NAME", d, LikelyNeutral)))
  /\ (InFuncSites /\ bound("comparison_top")) =>
       LET ct == g.comparison_top
           ef == g.expanded_filtered
       IN \A k \in pairs_of(ef) :
            /\ k \in ct.index
            /\ FEq(ct.cell[k][<<"ratio_onco_neutral">>],
                   smoothed(pair_count(ef, k, Oncogenic),
                            pair_count(ef, k, LikelyNeutral)))

\* the sum of the Variant_Count of the rows of one class of a fraction table
class_count_sum(t, c) ==
  FSumOver({k \in t.index : k[2] = c}, column(t, <<"Variant_Count">>))

\* C3: in the functional-site and the hotspot fraction table, the counts of
\* a class summed over the categories equal the class total the fractions
\* are divided by.
C3_CountsSumToClassTotal ==
  ((InFuncSites \/ InHotspots) /\ bound("totals")) =>
     \A c \in DOMAIN g.totals :
       FEq(class_count_sum(g.counts, c), Flt(g.totals[c], 1))

\* the rows standing in `order`, in descending order of the metric, rows of
\* equal metric in the order they stand in
stable_sort_desc(order, metric) ==
  [i \in 1..Len(order) |->
     CHOOSE k \in Range(order) :
       Cardinality({x \in Range(order) : precedes(order, metric, x, k)}) = i - 1]

IsDescending(o, metric) ==
  \A i \in 1..(Len(o) - 1) : FLe(metric[o[i + 1]], metric[o[i]])

\* C4: the top domains by Total are in descending order of Total, and
\* domains of equal Total stand in the order they had in the table that was
\* sorted.
C4_TopNStableOrder ==
  (InDomain /\ bound("high_count_domains")) =>
     LET de == g.domain_enrichment
         total == column(de.t, <<"Total">>)
     IN /\ IsDescending(g.high_count_domains, total)
        /\ g.high_count_domains =
             head(stable_sort_desc(de.order, total), n_domains)

\* the matrix m has the rows E and the columns C, every cell is a number,
\* and a cell with no row in the sparse table is 0
IsTotalMatrix(m, E, C, sparse) ==
  /\ m.index = E
  /\ m.columns = C
  /\ \A r \in m.index : \A c \in m.columns :
       /\ IsFinite(m.cell[r][c])
       /\ (<<r, c>> \notin sparse.index => m.cell[r][c] = Flt(0, 1))

\* C5: each gene x domain heatmap has one row per selected gene, one column
\* per selected domain, and 0 where the pair has no row.
C5_MatrixIsTotal ==
  /\ (InDomain /\ pc = "driver_genes") =>
       IsTotalMatrix(g.heatmap_combined, Range(g.top_genes_combined),
                     Range(g.top_domains), g.combined_top)
  /\ (InDomain /\ pc = "done") =>
       IsTotalMatrix(g.heatmap_df, Range(g.top_genes), Range(g.top_domains),
                     g.gene_domain_fraction_top)

\* C6: no division is done on a zero denominator (numpy raises no
\* RuntimeWarning), and every fraction and percentage is a number.
C6_NoRawDivisionByZero ==
  /\ warnings = {}
  /\ (InDomain /\ bound("printed_in_out")) =>
       \A c \in BothClasses : IsFinite(g.printed_in_out[c].fraction_inside)
  /\ (InFuncSites /\ bound("summary")) =>
       \A i \in 1..Len(g.summary) : IsFinite(g.summary[i].Fraction_inside)
  /\ (InHotspots /\ bound("fraction_in_hotspots")) =>
       IsFinite(g.fraction_in_hotspots)
  /\ (InHotspots /\ bound("fraction_oncogenic")) =>
       IsFinite(g.fraction_oncogenic) /\ IsFinite(g.fraction_oncogenic_in_hotspots)
  /\ (InHotspots /\ bound("fraction_neutral")) =>
       IsFinite(g.fraction_neutral) /\ IsFinite(g.fraction_neutral_in_hotspots)

\* the ratio is positive and finite; it is 1 exactly when the counts a and b
\* are equal and above 1 exactly when a > b
RatioSound(ratio, a, b) ==
  /\ ratio.n > 0 /\ ratio.d > 0
  /\ FEq(ratio, one) <=> a = b
  /\ FLt(one, ratio) <=> a > b

\* C7: every enrichment ratio, of a domain and of a <<gene, feature type>>
\* pair, is positive and finite, is 1 exactly when the two class counts are
\* equal and is above 1 exactly when the oncogenic count is the larger.
C7_RatioPositiveAndOneIffEqual ==
  /\ (InDomain /\ bound("domain_enrichment")) =>
       LET dp == g.domain_pivot
           vd == g.variants_domains
       IN \A d \in dp.index :
            RatioSound(dp.cell[d][<<"Onco_Neutral_Ratio">>],
                       rows_with_class(vd, "DOMAIN_NAME", d, Oncogenic),
                       rows_with_class(vd, "DOMAIN_NAME", d, LikelyNeutral))
  /\ (InFuncSites /\ bound("comparison_top")) =>
       LET ct == g.comparison_top
           ef == g.expanded_filtered
       IN \A k \in ct.index :
            RatioSound(ct.cell[k][<<"ratio_onco_neutral">>],
                       pair_count(ef, k, Oncogenic),
                       pair_count(ef, k, LikelyNeutral))

\* ratios have been computed for a table with a domain of equal counts and a
\* domain with only oncogenic rows
C7_Witness ==
  /\ InDomain /\ bound("domain_enrichment")
  /\ \E d, e \in g.domain_pivot.index :
       /\ FEq(g.domain_pivot.cell[d][<<"Onco_Neutral_Ratio">>], one)
       /\ g.domain_pivot.cell[e][<<"Likely Neutral">>] = Flt(0, 1)
       /\ FLt(one, g.domain_pivot.cell[e][<<"Onco_Neutral_Ratio">>])

\* per category, the counts of the count table t summed over the classes
\* equal the number of rows of df that carry the category in col
CountsConserved(t, df, col) ==
  /\ {k[1] : k \in DOMAIN t} = categories(df, col)
  /\ \A v \in categories(df, col) :
       SumOver({k \in DOMAIN t : k[1] = v}, t) = rows_with(df, col, v)

\* C8: in the count table of each analysis, the counts of a category summed
\* over the classes equal the number of counted rows with that category.
C8_CountsConserved ==
  /\ (InDomain /\ bound("domain_class_counts")) =>
       CountsConserved(g.domain_class_counts, g.variants_domains, "DOMAIN_NAME")
  /\ (InFuncSites /\ pc = "fractions") =>
       CountsConserved(g.counts, g.expanded, "FEATURE_TYPE")
  /\ (InHotspots /\ pc = "fractions") =>
       CountsConserved(g.counts, g.variants_onco_neutral, "In_Hotspot")

\* a domain counted in both classes, from three rows
C8_Witness ==
  /\ InDomain /\ bound("domain_class_counts")
  /\ \E d \in categories(g.variants_domains, "DOMAIN_NAME") :
       /\ <<d, Oncogenic>> \in DOMAIN g.domain_class_counts
       /\ <<d, LikelyNeutral>> \in DOMAIN g.domain_class_counts
       /\ rows_with(g.variants_domains, "DOMAIN_NAME", d) = 3

\* the sum of a column of a table keyed by <<gene, category>>, over the
\* genes of one category
category_sum(t, col, c) ==
  FSumOver({k \in t.index : k[2] = c}, column(t, col))
matrix_column_sum(m, c) ==
  FSumOver(m.index, [r \in m.index |-> m.cell[r][c]])

\* C9: the shares of a category sum to 1 over the genes, and a column of a
\* matrix restricted to the selected genes sums to at most 1.
C9_FractionOfCategorySums ==
  /\ (InDomain /\ bound("gene_domain_fraction")) =>
       \A c \in {k[2] : k \in g.gene_domain_fraction.t.index} :
         FEq(category_sum(g.gene_domain_fraction.t,
                          <<"Fraction_of_Domain">>, c), one)
  /\ (InDomain /\ bound("heatmap_df")) =>
       \A c \in g.heatmap_df.columns :
         FLe(matrix_column_sum(g.heatmap_df, c), one)
  /\ (InFuncSites /\ bound("gene_feature_fraction")) =>
       \A c \in {k[2] : k \in g.gene_feature_fraction.t.index} :
         FEq(category_sum(g.gene_feature_fraction.t,
                          <<"Fraction_of_Feature">>, c), one)
  /\ (InFuncSites /\ bound("pivot")) =>
       \A c \in g.pivot.columns : FLe(matrix_column_sum(g.pivot, c), one)

\* a domain shared by two genes, of which the selection keeps one: the
\* column of the matrix sums to less than 1
C9_Witness ==
  /\ InDomain /\ bound("heatmap_df")
  /\ \E c \in g.heatmap_df.columns :
       /\ Cardinality({k \in g.gene_domain_fraction.t.index : k[2] = c}) = 2
       /\ FLt(matrix_column_sum(g.heatmap_df, c), one)
       /\ FLt(Flt(0, 1), matrix_column_sum(g.heatmap_df, c))

\* C10: in the top domains x top genes pipelines the volume that ranks a
\* domain is the sum over the genes of the volume that ranks the genes in
\* that domain.
C10_SameVolumeDefinition ==
  /\ (InDomain /\ pc = "driver_genes") =>
       \A d \in g.domain_enrichment.t.index :
         FEq(g.domain_enrichment.t.cell[d][<<"Total">>],
             category_sum(g.gene_domain_matrix, <<"Total">>, d))
  /\ (InDomain /\ pc = "done") =>
       \A d \in {k[2] : k \in g.gene_domain_fraction.t.index} :
         FEq(Flt(rows_with_class(SelectSeq(g.variants_domains,
                   LAMBDA r : ~isna(r["Hugo_Symbol"])),
                   "DOMAIN_NAME", d, Oncogenic), 1),
             category_sum(g.gene_domain_fraction.t, <<"Variant_Count">>, d))

\* C11: once loaded, the source table is never modified: no step of a script
\* changes the rows, the columns or the values of the table it loaded.  (Line
\* 81 of variants_in_func_sites.py binds the name variants to a new, filtered
\* table and leaves the loaded one as it was; that step is left out.)
C11_SourceTableUnmodified ==
  [][(pc # "load" /\ ~(InFuncSites /\ pc = "filter")) =>
       g'.variants = g.variants]_vars

\* C12: every run of a pipeline comes to a result: no script is ended by an
\* error on an input table that has the columns the script reads.
C12_PipelineIsTotal ==
  header = InputColumns[script] => pc # KeyError

\* the tokens of a field, trimmed
tokens(v) == {str_strip(str_split(v)[i]) : i \in 1..Len(str_split(v))}

\* every row of the expanded table comes from a record of the source with a
\* non-missing field that holds the row's token, and has the record's columns
\* and, in every column but the expanded one, the record's values
ExpansionKeepsColumns(expanded, source, col) ==
  \A i \in 1..Len(expanded) :
    \E j \in 1..Len(source) :
      /\ ~isna(source[j][col])
      /\ expanded[i][col] \in tokens(source[j][col])
      /\ DOMAIN expanded[i] = DOMAIN source[j]
      /\ \A c \in DOMAIN source[j] \ {col} : expanded[i][c] = source[j][c]

\* C13: each expanded row keeps the class, the gene and every other column
\* of the record it was produced from; expansion changes the expanded column
\* only.
C13_ExpansionKeepsOtherColumns ==
  /\ (InDomain /\ pc = "domain_enrichment") =>
       ExpansionKeepsColumns(g.variants_domains, g.variants, "DOMAIN_NAME")
  /\ (InFuncSites /\ pc = "counts") =>
       ExpansionKeepsColumns(g.expanded, g.variants, "FEATURE_TYPE")

\* a single record of gene A with two domains has been expanded into two
\* rows of gene A
C13_Witness ==
  /\ InDomain /\ pc = "domain_enrichment"
  /\ Len(g.variants) = 1 /\ g.variants[1]["Hugo_Symbol"] = <<"A">>
  /\ Len(g.variants_domains) = 2
  /\ g.variants_domains[1]["DOMAIN_NAME"] # g.variants_domains[2]["DOMAIN_NAME"]
  /\ \A i \in 1..2 : g.variants_domains[i]["Hugo_Symbol"] = <<"A">>

\* the number of tokens equal to c, after trimming, in the non-missing fields
\* of the records of class cl
token_count(df, col, c, cl) ==
  SumOver({i \in 1..Len(df) : df[i]["ONCOGENIC"] = cl /\ ~isna(df[i][col])},
          [i \in 1..Len(df) |->
             Cardinality({k \in 1..Len(str_split(df[i][col])) :
                            str_strip(str_split(df[i][col])[k]) = c})])

\* the trimmed tokens of the records of a table
all_tokens(df, col) ==
  UNION {tokens(df[i][col]) : i \in {j \in 1..Len(df) : ~isna(df[j][col])}}

\* the count table t holds, for each class and each trimmed token that
\* occurs in the class, the empty token included, the number of its
\* occurrences, and nothing else
TokensCounted(t, df, col) ==
  /\ \A k \in DOMAIN t : k[1] \in all_tokens(df, col) /\ k[2] \in BothClasses
  /\ \A c \in all_tokens(df, col) : \A cl \in BothClasses :
       IF token_count(df, col, c, cl) = 0 THEN <<c, cl>> \notin DOMAIN t
       ELSE <<c, cl>> \in DOMAIN t /\ t[<<c, cl>>] = token_count(df, col, c, cl)

\* a field without ";" gives one row
OneRowPerUnsplitField(expanded, df, col) ==
  (\A i \in 1..Len(df) : \A k \in 1..Len(df[i][col]) : df[i][col][k] # ";") =>
     Len(expanded) = Cardinality({i \in 1..Len(df) : ~isna(df[i][col])})

\* C14: tokens are trimmed before they are counted, so tokens that differ in
\* surrounding blanks are one category; a field without delimiter gives one
\* row; a token that is empty after trimming is counted as a category.
C14_TokensTrimmedEmptyKept ==
  /\ (InDomain /\ bound("domain_class_counts")) =>
       /\ TokensCounted(g.domain_class_counts, g.variants, "DOMAIN_NAME")
       /\ OneRowPerUnsplitField(expand(g.variants, "DOMAIN_NAME"), g.variants,
                                "DOMAIN_NAME")
  /\ (InFuncSites /\ bound("counts")) =>
       /\ TokensCounted(g.counts, g.variants, "FEATURE_TYPE")
       /\ OneRowPerUnsplitField(g.expanded, g.variants, "FEATURE_TYPE")

\* "Kinase" and " Kinase " have been counted as one category of count 2,
\* beside the empty token of "Kinase; " or " "
C14_Witness ==
  /\ InDomain /\ bound("domain_class_counts")
  /\ \E i, j \in 1..Len(g.variants) :
       /\ g.variants[i]["DOMAIN_NAME"] = <<"Kinase">>
       /\ g.variants[j]["DOMAIN_NAME"] = <<" ", "Kinase", " ">>
  /\ <<(<<"Kinase">>), Oncogenic>> \in DOMAIN g.domain_class_counts
  /\ g.domain_class_counts[<<(<<"Kinase">>), Oncogenic>>] = 2
  /\ \E cl \in BothClasses : <<(<<>>), cl>> \in DOMAIN g.domain_class_counts

\* C15: on an input file without the column that is expanded, the script is
\* ended by an error at the first transform that names the column, and no
\* table is derived from the column.
C15_MissingColumnFailsFast ==
  /\ (InDomain /\ "DOMAIN_NAME" \notin header) =>
       /\ pc \in {"load", "count_in_out", "KeyError"}
       /\ ~bound("printed_in_out") /\ ~bound("variants_domains")
  /\ (InFuncSites /\ "FEATURE_TYPE" \notin header) =>
       /\ pc \in {"load", "filter", "summary", "expand", "KeyError"}
       /\ ~bound("expanded")

\* the expansion of a non-empty table without the column FEATURE_TYPE has
\* failed
C15_Witness ==
  /\ InFuncSites /\ "FEATURE_TYPE" \notin header
  /\ pc = "KeyError"
  /\ Len(g.variants) > 0

\* sel holds min(N, number of keys) distinct keys of the metric, and no key
\* left out has a larger metric than a key in sel
IsTopN(sel, metric, N) ==
  /\ Len(sel) = Min(N, Cardinality(DOMAIN metric))
  /\ Cardinality(Range(sel)) = Len(sel)
  /\ Range(sel) \subseteq DOMAIN metric
  /\ \A out \in DOMAIN metric \ Range(sel) : \A in \in Range(sel) :
       FLe(metric[out], metric[in])

\* C16: a top-N selection returns min(N, number of keys) keys, and every key
\* left out has a metric value at most that of every key returned.
C16_TopNSizeAndCut ==
  /\ (InDomain /\ bound("high_count_domains")) =>
       IsTopN(g.high_count_domains,
              column(g.domain_enrichment.t, <<"Total">>), n_domains)
  /\ (InHotspots /\ bound("top_oncogenes")) =>
       IsTopN(g.top_oncogenes, as_float(g.onco_genes.t), n_genes)
  /\ (InTopGenes /\ bound("top_onco_genes")) =>
       IsTopN(g.top_onco_genes, as_float(g.oncogenic_genes.t), n_genes)

\* of two genes with counts 2 and 1 the selection has returned the first
\* and left out the second
C16_Witness ==
  /\ InHotspots /\ bound("top_oncogenes")
  /\ \E a, b \in DOMAIN g.onco_genes.t :
       /\ g.onco_genes.t[a] = 2 /\ g.onco_genes.t[b] = 1
       /\ g.top_oncogenes = <<a>>

\* a number of [0, 1]
InUnit(x) == IsFinite(x) /\ 0 <= x.n /\ x.n <= x.d

\* the matrix m, pivoted from the table src keyed by <<gene, category>>, has
\* one row label per gene and one column label per category of src, no label
\* twice, at most one row of src per cell, and every cell in [0, 1]
IsFractionMatrix(m, src) ==
  /\ Cardinality(m.index) = Cardinality({k[1] : k \in src.index})
  /\ Cardinality(m.columns) = Cardinality({k[2] : k \in src.index})
  /\ \A r \in m.index : \A c \in m.columns :
       /\ Cardinality({k \in src.index : k[1] = r /\ k[2] = c}) <= 1
       /\ InUnit(m.cell[r][c])

\* C17: in every heatmap matrix the row labels are distinct, the column
\* labels are distinct, and every cell of a fraction matrix is in [0, 1].
C17_MatrixLabelsAndRange ==
  /\ (InDomain /\ bound("heatmap_combined")) =>
       /\ IsFractionMatrix(g.heatmap_combined, g.combined_top)
       /\ \A k \in g.gene_domain_matrix.index :
            InUnit(g.gene_domain_matrix.cell[k][<<"Oncogenic_Fraction">>])
  /\ (InDomain /\ bound("heatmap_df")) =>
       IsFractionMatrix(g.heatmap_df, g.gene_domain_fraction_top)
  /\ (InFuncSites /\ bound("pivot")) =>
       IsFractionMatrix(g.pivot, g.top_genes_per_feature)

\* a combined heatmap with a cell strictly between 0 and 1
C17_Witness ==
  /\ InDomain /\ bound("heatmap_combined")
  /\ \E r \in g.heatmap_combined.index : \E c \in g.heatmap_combined.columns :
       /\ 0 < g.heatmap_combined.cell[r][c].n
       /\ g.heatmap_combined.cell[r][c].n < g.heatmap_combined.cell[r][c].d

\* the table of the scenario: the rows (Oncogenic, "Kinase;SH2"),
\* (Oncogenic, "Kinase") and (Likely Neutral, "Kinase"), in any order
IsScenario(df) ==
  /\ Len(df) = 3
  /\ \E i, j, k \in 1..3 :
       /\ {i, j, k} = 1..3
       /\ df[i]["ONCOGENIC"] = Oncogenic
       /\ df[i]["DOMAIN_NAME"] = <<"Kinase", ";", "SH2">>
       /\ df[j]["ONCOGENIC"] = Oncogenic
       /\ df[j]["DOMAIN_NAME"] = <<"Kinase">>
       /\ df[k]["ONCOGENIC"] = LikelyNeutral
       /\ df[k]["DOMAIN_NAME"] = <<"Kinase">>

\* C18: on the table of the scenario the expansion gives 4 rows, 3 of Kinase
\* and 1 of SH2, the count table is (Kinase, Oncogenic) 2, (Kinase, Likely
\* Neutral) 1, (SH2, Oncogenic) 1, and the ratios are 3/2 for Kinase and 2
\* for SH2.
C18_EndToEndScenario ==
  (InDomain /\ IsScenario(g.variants)) =>
    /\ bound("variants_domains") =>
         /\ Len(g.variants_domains) = 4
         /\ rows_with(g.variants_domains, "DOMAIN_NAME", <<"Kinase">>) = 3
         /\ rows_with(g.variants_domains, "DOMAIN_NAME", <<"SH2">>) = 1
    /\ bound("domain_class_counts") =>
         g.domain_class_counts =
           (<<(<<"Kinase">>), Oncogenic>> :> 2) @@
           (<<(<<"Kinase">>), LikelyNeutral>> :> 1) @@
           (<<(<<"SH2">>), Oncogenic>> :> 1)
    /\ pc \notin {"count_in_out", "explode", "domain_enrichment"} =>
         /\ pc = "top_domains_plot"
         /\ FEq(g.domain_pivot.cell[<<"Kinase">>][<<"Onco_Neutral_Ratio">>],
                Flt(3, 2))
         /\ FEq(g.domain_pivot.cell[<<"SH2">>][<<"Onco_Neutral_Ratio">>],
                Flt(2, 1))

\* the enrichment section has run on the table of the scenario
C18_Witness ==
  /\ InDomain /\ IsScenario(g.variants)
  /\ pc = "top_domains_plot"
  /\ bound("domain_enrichment")

\* the feature types of the keys <<gene, feature type>> of a table
features_of(keys) == {k[2] : k \in keys}

\* C19: in the analysis restricted to the allow-list (Binding site, Modified
\* residue, Region, Topological domain), no feature type outside the list is
\* in a derived table (the filtered rows,
\* the gene x feature counts of either class, the totals and fractions, the
\* comparison and its ratios, the plotted subsets, the top genes matrix); each
\* count is the number of allow-listed oncogenic rows of the pair, and each
\* Feature_Total is the sum of the counts of its feature type.
C19_AllowListRestrictsCounts ==
  LET allowed == {<<"Binding site">>, <<"Modified residue">>, <<"Region">>,
                  <<"Topological domain">>}
  IN /\ (InFuncSites /\ bound("gene_feature_fraction")) =>
          LET gfc == g.gene_feature_counts.t
              gff == g.gene_feature_fraction.t
          IN /\ categories(g.expanded_filtered, "FEATURE_TYPE") \subseteq allowed
             /\ categories(g.onco, "FEATURE_TYPE") \subseteq allowed
             /\ features_of(DOMAIN gfc) \subseteq allowed
             /\ features_of(gff.index) \subseteq allowed
             /\ \A k \in DOMAIN gfc :
                  gfc[k] = pair_count(g.expanded_filtered, k, Oncogenic)
             /\ \A k \in gff.index :
                  gff.cell[k][<<"Feature_Total">>] =
                    Flt(SumOver({x \in DOMAIN gfc : x[2] = k[2]}, gfc), 1)
     /\ (InFuncSites /\ bound("comparison_top")) =>
          /\ features_of(DOMAIN g.likely_neutral_counts) \subseteq allowed
          /\ features_of(g.comparison.index) \subseteq allowed
          /\ features_of(g.comparison_top.index) \subseteq allowed
     /\ (InFuncSites /\ bound("subset")) =>
          \A ft \in DOMAIN g.subset :
            features_of(Range(g.subset[ft])) \subseteq allowed
     /\ (InFuncSites /\ bound("pivot")) =>
          /\ features_of(g.top_genes_per_feature.index) \subseteq allowed
          /\ g.pivot.columns \subseteq allowed

\* a record with a feature type of the list and one outside it has been
\* counted: the pair of the listed feature type has a count, the other none
C19_Witness ==
  /\ InFuncSites /\ bound("gene_feature_fraction")
  /\ \E i \in 1..Len(g.expanded) : \E j \in 1..Len(g.expanded) :
       /\ g.expanded[i]["FEATURE_TYPE"] = <<"Active site">>
       /\ g.expanded[j]["FEATURE_TYPE"] = <<"Region">>
       /\ g.expanded[j]["ONCOGENIC"] = Oncogenic
       /\ ~isna(g.expanded[j]["Hugo_Symbol"])
  /\ \E k \in DOMAIN g.gene_feature_counts.t : k[2] = <<"Region">>

\* no field of the column holds the delimiter ";"
NoSemicolon(df, col) ==
  \A i \in 1..Len(df) : \A k \in 1..Len(df[i][col]) : df[i][col][k] # ";"

\* the records of class cl whose whole field, trimmed, is c
whole_field_count(df, col, c, cl) ==
  Cardinality({i \in 1..Len(df) :
                 /\ df[i]["ONCOGENIC"] = cl
                 /\ ~isna(df[i][col])
                 /\ str_strip(df[i][col]) = c})

\* the count table t has one category per trimmed whole field of df, counted
\* by class, and no other category
WholeFieldsCounted(t, df, col) ==
  LET fields == {str_strip(df[i][col]) :
                   i \in {j \in 1..Len(df) : ~isna(df[j][col])}}
  IN /\ \A k \in DOMAIN t : k[1] \in fields
     /\ \A c \in fields : \A cl \in BothClasses :
          IF whole_field_count(df, col, c, cl) = 0 THEN <<c, cl>> \notin DOMAIN t
          ELSE /\ <<c, cl>> \in DOMAIN t
               /\ t[<<c, cl>>] = whole_field_count(df, col, c, cl)

\* C20: a field whose values are joined by a delimiter other than ";" is not
\* split: the whole field, trimmed, is one token and is counted as one
\* category.
C20_OtherDelimiterNotSplit ==
  /\ (InDomain /\ bound("domain_class_counts")
        /\ NoSemicolon(g.variants, "DOMAIN_NAME")) =>
       /\ WholeFieldsCounted(g.domain_class_counts, g.variants, "DOMAIN_NAME")
       /\ Len(expand(g.variants, "DOMAIN_NAME")) =
            Len(dropna(g.variants, "DOMAIN_NAME"))
  /\ (InFuncSites /\ bound("counts")
        /\ NoSemicolon(g.variants, "FEATURE_TYPE")) =>
       /\ WholeFieldsCounted(g.counts, g.variants, "FEATURE_TYPE")
       /\ Len(g.expanded) = Len(dropna(g.variants, "FEATURE_TYPE"))

\* the fields "Kinase,SH2" and " Kinase|SH2 " have been counted, each as one
\* category
C20_Witness ==
  /\ InFuncSites /\ bound("counts")
  /\ NoSemicolon(g.variants, "FEATURE_TYPE")
  /\ \E cl \in BothClasses :
       <<(<<"Kinase", ",", "SH2">>), cl>> \in DOMAIN g.counts
  /\ \E cl \in BothClasses :
       <<(<<"Kinase", "|", "SH2">>), cl>> \in DOMAIN g.counts

InGnomad == script = "gnomAD_freq"

\* the counts of one class, read off the loaded table: a row's frequency is
\* missing when its cell is empty or ".", common for "0.02", rare for "0.01"
class_af_counts(variants, status) ==
  LET rows == {i \in 1..Len(variants) : variants[i].ONCOGENIC = status}
      n(cells) == Cardinality({i \in rows : variants[i].gnomAD_AF \in cells})
  IN [total |-> Cardinality(rows),
      missing_af |-> n({NaN, <<".">>}),
      available |-> Cardinality(rows) - n({NaN, <<".">>}),
      common |-> n({<<"0", ".", "0", "2">>}),
      rare |-> n({<<"0", ".", "0", "1">>})]

CallsReportClassCounts ==
  (InGnomad /\ pc # "load") =>
    \A i \in 1..Len(statuses) :
      LET status == statuses[i]
          expected == class_af_counts(g.variants, status)
      IN /\ at(status) # "call" => calls[status].total = expected.total
         /\ at(status) = "returned" =>
              \A name \in DOMAIN expected :
                calls[status][name] = expected[name]

TableLeftUnchanged ==
  (InGnomad /\ pc # "load") => g'.variants = g.variants

\* C21: whatever the order and interleaving of the calls of analyze_gnomad_af
\* for the different classes, no step of a call changes the loaded table, and
\* the total, missing, available, common and rare counts a call reports are
\* those of its class in that table.
C21_CallsDoNotInterfere ==
  []CallsReportClassCounts /\ [][TableLeftUnchanged]_vars

\* the call for Oncogenic has returned counts with a missing and a common
\* frequency while the call for Unknown, which the script makes first, is
\* half-way and the call for Likely Neutral has just taken its rows
C21_Witness ==
  /\ InGnomad /\ pc = "calls"
  /\ at(Oncogenic) = "returned"
  /\ calls[Oncogenic].missing_af = 1 /\ calls[Oncogenic].common = 1
  /\ at(<<"Unknown">>) = "converted" /\ calls[<<"Unknown">>].total = 1
  /\ at(LikelyNeutral) = "subset"
  /\ at(LikelyOncogenic) = "call"

\* C22: in the fraction table of variants_in_func_sites.py every Fraction of
\* a (feature type, class) pair is greater than 0 and at most 1, whatever the
\* input table, tables with a repeated token in a field ("Region;Region")
\* included.
C22_FractionInUnitInterval ==
  (InFuncSites /\ bound("totals")) =>
    \A k \in g.counts.index :
      LET x == g.counts.cell[k][<<"Fraction">>]
      IN IsFinite(x) /\ FLt(Flt(0, 1), x) /\ FLe(x, one)

\* the number of times each row occurs in a table
row_bag(df) ==
  [r \in Range(df) |-> Cardinality({i \in 1..Len(df) : df[i] = r})]

\* the rows got by keeping the records of the classes first and expanding col
\* afterwards: one row per token of each kept record whose field is not
\* missing, counted as often as it arises
filter_then_expand(df, col, cls) ==
  LET kept == SelectSeq(df, LAMBDA r : r.ONCOGENIC \in cls /\ ~isna(r[col]))
      row(i, j) ==
        [kept[i] EXCEPT ![col] = str_strip(str_split(kept[i][col])[j])]
      at_ == UNION {{<<i, j>> : j \in 1..Len(str_split(kept[i][col]))} :
                    i \in 1..Len(kept)}
      made == {row(ij[1], ij[2]) : ij \in at_}
  IN [r \in made |-> Cardinality({ij \in at_ : row(ij[1], ij[2]) = r})]

\* C23: expanding the category column and then keeping the rows of the two
\* classes, as variants_in_domain.py does, gives the same rows, each as often,
\* as keeping the two classes first and expanding afterwards, as
\* variants_in_func_sites.py does.
C23_ExpansionAndFilterCommute ==
  /\ (InDomain /\ bound("domain_class_counts")) =>
        row_bag(g.variants_domains) =
          filter_then_expand(g.variants, "DOMAIN_NAME", BothClasses)
  /\ (InFuncSites /\ bound("expanded")) =>
        row_bag(g.expanded) =
          filter_then_expand(g.variants, "FEATURE_TYPE", Range(classes))

\* the domain analysis has expanded a table that holds a two-token record of
\* a class it keeps, a record of a class it drops and a record with no domain
C23_Witness ==
  /\ InDomain /\ bound("domain_class_counts")
  /\ Len(g.variants_domains) = 2
  /\ \E i, j, k \in 1..Len(g.variants) :
       /\ g.variants[i].ONCOGENIC = Oncogenic
       /\ Len(str_split(g.variants[i].DOMAIN_NAME)) = 2
       /\ g.variants[j].ONCOGENIC \notin BothClasses
       /\ ~isna(g.variants[j].DOMAIN_NAME)
       /\ isna(g.variants[k].DOMAIN_NAME)

\* C24: in the matrix of the top genes per feature type, the cell of a gene
\* and a feature type is the gene's Fraction_of_Feature for that feature type
\* whenever the gene has an oncogenic variant in it, and is 0 only when the
\* gene has none.
C24_MatrixCellIsFraction ==
  (InFuncSites /\ bound("top_genes_per_feature")) =>
    LET gff == g.gene_feature_fraction.t
    IN \A gene \in g.pivot.index : \A ft \in g.pivot.columns :
         LET cell == g.pivot.cell[gene][ft]
             has_variant == <<gene, ft>> \in DOMAIN g.gene_feature_counts.t
         IN /\ has_variant =>
                 cell = gff.cell[<<gene, ft>>][<<"Fraction_of_Feature">>]
            /\ FEq(cell, Flt(0, 1)) => ~has_variant

\* the allow-listed expanded rows, and the genes that have an oncogenic one
allow_listed_rows ==
  SelectSeq(g.expanded,
            LAMBDA r : r.FEATURE_TYPE \in {<<"Binding site">>,
                                           <<"Modified residue">>,
                                           <<"Region">>,
                                           <<"Topological domain">>})
genes_with_oncogenic ==
  {r.Hugo_Symbol : r \in {x \in Range(allow_listed_rows) :
                            x.ONCOGENIC = Oncogenic /\ ~isna(x.Hugo_Symbol)}}

\* C25: the rows of comparison_top are the (gene, feature type) pairs, with a
\* row in either class, of the genes that have an oncogenic variant in an
\* allow-listed feature type; a pair of such a gene with neutral variants only
\* has the oncogenic count 0 and the ratio 1 / (neutral count + 1); a gene
\* with no oncogenic variant in an allow-listed feature type has no row.
C25_ComparisonTopGenes ==
  (InFuncSites /\ bound("comparison_top")) =>
    LET ct == g.comparison_top
        oncogenic_n(k) == pair_count(allow_listed_rows, k, Oncogenic)
        neutral_n(k) == pair_count(allow_listed_rows, k, LikelyNeutral)
    IN /\ \A k \in ct.index : k[1] \in genes_with_oncogenic
       /\ \A k \in pairs_of(allow_listed_rows) :
            k[1] \in genes_with_oncogenic <=> k \in ct.index
       /\ \A k \in ct.index :
            oncogenic_n(k) = 0 =>
              /\ ct.cell[k][<<"Variant_Count_oncogenic">>] = Flt(0, 1)
              /\ ct.cell[k][<<"Variant_Count_likely_neutral">>] =
                   Flt(neutral_n(k), 1)
              /\ FEq(ct.cell[k][<<"ratio_onco_neutral">>],
                     Flt(1, neutral_n(k) + 1))

\* comparison_top holds a pair with neutral variants only, of a gene that has
\* an oncogenic variant in another feature type, and leaves out a gene whose
\* allow-listed variants are all neutral
C25_Witness ==
  /\ InFuncSites /\ bound("comparison_top")
  /\ \E k \in g.comparison_top.index :
       /\ pair_count(allow_listed_rows, k, Oncogenic) = 0
       /\ pair_count(allow_listed_rows, k, LikelyNeutral) = 1
  /\ \E k \in pairs_of(allow_listed_rows) : k \notin g.comparison_top.index

\* the records of a class whose IN_FUNC_SITE flag is true
flagged_inside(variants, c) ==
  Cardinality({i \in 1..Len(variants) :
                 /\ variants[i].ONCOGENIC = c
                 /\ variants[i].IN_FUNC_SITE = True})

\* the step of lines 80-85 leaves every class as many records with a true
\* flag as the loaded table has
FlagsKeptByFilter ==
  (InFuncSites /\ pc = "filter") =>
    \A i \in 1..Len(classes) :
      flagged_inside(g'.variants, classes[i]) =
        flagged_inside(g.variants, classes[i])

\* the inside count of a class is the number of its records with a true flag
\* in the table the summary is taken on
InsideCountsFlags ==
  (InFuncSites /\ bound("summary")) =>
    \A i \in 1..Len(classes) :
      /\ g.summary[i].Class = classes[i]
      /\ g.summary[i].Inside_func_site =
           flagged_inside(g.variants, classes[i])

\* C26: a record with a missing IN_FUNC_SITE is not counted as inside a
\* functional site: the inside count of a class in the summary is the number
\* of records of the class whose flag is true in the loaded table.
C26_MissingFlagNotInside ==
  [][FlagsKeptByFilter]_vars /\ []InsideCountsFlags

\* the oncogenic variants of a gene in the filtered table, and those in a
\* hotspot
oncogenic_of(gene) ==
  Cardinality({i \in 1..Len(g.variants_onco_neutral) :
                 /\ g.variants_onco_neutral[i].ONCOGENIC = Oncogenic
                 /\ g.variants_onco_neutral[i].Hugo_Symbol = gene})
oncogenic_hotspot_of(gene) ==
  Cardinality({i \in 1..Len(g.variants_onco_neutral) :
                 /\ g.variants_onco_neutral[i].ONCOGENIC = Oncogenic
                 /\ g.variants_onco_neutral[i].Hugo_Symbol = gene
                 /\ g.variants_onco_neutral[i].Hotspot_Type # NaN})

\* C27: every gene of the hotspot gene summary has Total_Oncogenic >= 1 and
\* 0 <= Hotspot_Oncogenic <= Total_Oncogenic, both being the gene's counts (0
\* for a gene with no hotspot variant), so that Hotspot_Fraction is their
\* quotient and lies in [0, 1]; every gene of the final selection has
\* Total_Oncogenic >= 10 and Hotspot_Oncogenic * 10 >= 3 * Total_Oncogenic,
\* and the selection is listed by Total_Oncogenic descending.
C27_HotspotGeneSummary ==
  (InHotspots /\ bound("oncogenic_gene_summary")) =>
    LET s == g.oncogenic_gene_summary.t
        top == g.top_genes
        total(k) == s.cell[k][<<"Total_Oncogenic">>]
        hotspot(k) == s.cell[k][<<"Hotspot_Oncogenic">>]
        fraction(k) == s.cell[k][<<"Hotspot_Fraction">>]
    IN /\ \A k \in s.index :
            /\ total(k) = Flt(oncogenic_of(k[1]), 1)
            /\ hotspot(k) = Flt(oncogenic_hotspot_of(k[1]), 1)
            /\ total(k).n >= 1
            /\ 0 <= hotspot(k).n /\ hotspot(k).n <= total(k).n
            /\ IsFinite(fraction(k))
            /\ FEq(fraction(k), Flt(hotspot(k).n, total(k).n))
            /\ FLe(Flt(0, 1), fraction(k)) /\ FLe(fraction(k), one)
       /\ top.t.index \subseteq s.index
       /\ \A k \in top.t.index :
            /\ top.t.cell[k] = s.cell[k]
            /\ total(k).n >= 10
            /\ hotspot(k).n * 10 >= 3 * total(k).n
       /\ Range(top.order) = top.t.index
       /\ \A i \in 1..(Len(top.order) - 1) :
            total(top.order[i]).n >= total(top.order[i + 1]).n

\* the summary lists a gene of 10 oncogenic variants with 3 in a hotspot and
\* a gene of 11 with 3 in a hotspot: the selection holds the first only
C27_Witness ==
  /\ InHotspots /\ bound("oncogenic_gene_summary")
  /\ oncogenic_of(<<"A">>) = 10 /\ oncogenic_hotspot_of(<<"A">>) = 3
  /\ oncogenic_of(<<"B">>) = 11 /\ oncogenic_hotspot_of(<<"B">>) = 3
  /\ g.top_genes.order = <<(<<(<<"A">>)>>)>>

\* domain_enrichment stands in descending order of Onco_Neutral_Ratio
EnrichmentOrderedByRatio ==
  (InDomain /\ bound("domain_enrichment")) =>
    LET de == g.domain_enrichment
    IN /\ Range(de.order) = de.t.index
       /\ Len(de.order) = Cardinality(de.t.index)
       /\ IsDescending(de.order, column(de.t, <<"Onco_Neutral_Ratio">>))

\* the rows of the enrichment plot are n_enriched domains of highest ratio
PlotShowsHighestRatios ==
  (InDomain /\ bound("domain_enrichment_head")) =>
    /\ bound("high_count_domains")
    /\ IsTopN(g.domain_enrichment_head,
              column(g.domain_enrichment.t, <<"Onco_Neutral_Ratio">>),
              n_enriched)

\* no later step reorders domain_enrichment
EnrichmentOrderKept ==
  (InDomain /\ bound("domain_enrichment")) =>
    g'.domain_enrichment.order = g.domain_enrichment.order

\* C28: adding the Total column and selecting the top domains by Total leaves
\* domain_enrichment in its order, which is descending in Onco_Neutral_Ratio,
\* so that the domains taken for the enrichment plot are domains of highest
\* ratio.
C28_EnrichmentOrderKept ==
  /\ []EnrichmentOrderedByRatio
  /\ []PlotShowsHighestRatios
  /\ [][EnrichmentOrderKept]_vars

\* the enrichment plot shows the domain of highest ratio while another domain
\* has the highest Total and comes first among the top domains by Total
C28_Witness ==
  /\ InDomain /\ bound("domain_enrichment_head")
  /\ Cardinality(g.domain_enrichment.t.index) = 2
  /\ Len(g.domain_enrichment_head) = 1
  /\ g.high_count_domains[1] # g.domain_enrichment_head[1]
  /\ LET de == g.domain_enrichment.t
         plotted == g.domain_enrichment_head[1]
         first == g.high_count_domains[1]
     IN /\ FLt(de.cell[first][<<"Onco_Neutral_Ratio">>],
               de.cell[plotted][<<"Onco_Neutral_Ratio">>])
        /\ FLt(de.cell[plotted][<<"Total">>], de.cell[first][<<"Total">>])

\* the variants of a gene in a class, in the loaded table
gene_class_count(gene, class) ==
  Cardinality({i \in 1..Len(g.variants) :
                 /\ g.variants[i].Hugo_Symbol = gene
                 /\ g.variants[i].ONCOGENIC = class})

\* every selected top gene has one row in pivot and pivot_pct; the row's
\* counts are the gene's Oncogenic and Likely Neutral counts, their total is
\* at least 1, and the row's percentages are each in [0, 100] and sum to 100
TopGenePercentages ==
  (InTopGenes /\ bound("pivot_pct")) =>
    LET p == g.pivot
        pct == g.pivot_pct
    IN /\ p.index = Range(g.top_onco_genes)
       /\ Cardinality(p.index) = Len(g.top_onco_genes)
       /\ pct.index = p.index /\ pct.columns = p.columns
       /\ p.columns \subseteq {Oncogenic, LikelyNeutral}
       /\ \A gene \in p.index :
            /\ \A c \in p.columns :
                 p.cell[gene][c] = Flt(gene_class_count(gene, c), 1)
            /\ \A c \in {Oncogenic, LikelyNeutral} \ p.columns :
                 gene_class_count(gene, c) = 0
            /\ gene_class_count(gene, Oncogenic) +
                 gene_class_count(gene, LikelyNeutral) >= 1
            /\ \A c \in pct.columns :
                 /\ IsFinite(pct.cell[gene][c])
                 /\ FLe(Flt(0, 1), pct.cell[gene][c])
                 /\ FLe(pct.cell[gene][c], Flt(100, 1))
            /\ FEq(FSumOver(pct.columns, pct.cell[gene]), Flt(100, 1))

class_rows(c) ==
  Cardinality({i \in 1..Len(g.variants) : g.variants[i].ONCOGENIC = c})

\* inside and outside are not negative and add up to total
Partitions(inside, outside, total) ==
  inside >= 0 /\ outside >= 0 /\ inside + outside = total

\* C30: inside + outside is the number of rows of the subset the two counts
\* are taken on, and neither is negative: per class in the domain analysis,
\* on the whole table and per class in the hotspot overview, and per class in
\* the functional-site summary.
C30_InsideOutsidePartition ==
  /\ (InDomain /\ bound("printed_in_out")) =>
       \A c \in DOMAIN g.printed_in_out :
         LET p == g.printed_in_out[c]
         IN p.total = class_rows(c) /\ Partitions(p.inside, p.outside, p.total)
  /\ (InHotspots /\ bound("variants_not_in_hotspots")) =>
       /\ g.total_num = Len(g.variants)
       /\ Partitions(g.variants_in_hotspots, g.variants_not_in_hotspots,
                     g.total_num)
  /\ (InHotspots /\ bound("oncogenic_not_in_hotspots")) =>
       Partitions(g.oncogenic_in_hotspots, g.oncogenic_not_in_hotspots,
                  class_rows(Oncogenic))
  /\ (InHotspots /\ bound("neutral_not_in_hotspots")) =>
       Partitions(g.neutral_in_hotspots, g.neutral_not_in_hotspots,
                  class_rows(LikelyNeutral))
  /\ (InFuncSites /\ bound("summary")) =>
       \A i \in 1..Len(g.summary) :
         LET s == g.summary[i]
         IN /\ s.Total_variants = class_rows(s.Class)
            /\ Partitions(s.Inside_func_site, s.Outside_func_site,
                          s.Total_variants)

\* the hotspot overview has counted a table of three variants, two of them
\* oncogenic: one oncogenic variant in a hotspot, one outside
C30_Witness ==
  /\ InHotspots /\ bound("neutral_not_in_hotspots")
  /\ Len(g.variants) = 3
  /\ g.variants_in_hotspots = 2 /\ g.variants_not_in_hotspots = 1
  /\ g.oncogenic_in_hotspots = 1 /\ g.oncogenic_not_in_hotspots = 1
  /\ g.neutral_in_hotspots = 1 /\ g.neutral_not_in_hotspots = 0

====
